---- MODULE Spec2Model ----
(***************************************************************************)
(* Sigil: the fingerprint store (core/hash_database.py), the signature    *)
(* protocol (core/crypto_signatures.py), the anchors (cli/anchor.py) and   *)
(* the perceptual hash (core/perceptual_hash.py) as state machines.        *)
(*                                                                         *)
(* Values.  A Python None and an SQL NULL are the empty tuple <<>>; every  *)
(* other value v is carried as the one-element tuple <<v>>, so that a      *)
(* value can always be compared with None.  A Python dict is a sequence of *)
(* <<key, value>> pairs in insertion order; a str is either a TLA+ string  *)
(* (opaque text) or, where its characters matter, a sequence of            *)
(* one-character strings.                                                  *)
(***************************************************************************)
EXTENDS Integers, Sequences, FiniteSets, TLC

VARIABLES
    rows,      \* committed contents of table hashes: a set of rows (column -> value)
    seq,       \* sqlite_sequence of the AUTOINCREMENT id: the largest id ever issued
    now,       \* the clock read by datetime.now()
    ops,       \* number of store_hash / delete_hash calls made so far
    last,      \* the last completed call on the sequential connection, with its result
    lock,      \* the connection holding the database's write lock, or None
    txn,       \* per connection: the table and sequence as its open transaction sees them
    pc,        \* per connection: the statement its current call executes next
    loc,       \* per connection: the arguments, locals and result of its current call
    schema,    \* the columns of table hashes in the database file, {} while it has no table
    indexes,   \* the indexes of the database file
    opc,       \* where HashDatabase.__init__ stands: the statement it executes next
    mig,       \* _migrate_schema: the columns read by PRAGMA table_info, and the loop index
    opens,     \* number of times the database has been opened
    legacy,    \* the database file as it was before it was first opened
    keyfiles,  \* the key location on disk: the private and the public key file
    ident,     \* the SigilIdentity object: private_key and public_key
    nkeys,     \* number of keypairs generated so far
    doc,       \* the signature document the caller holds
    orig,      \* the document as sign_hash returned it
    out,       \* the outcome of the last identity call
    signs,     \* number of sign_hash calls
    sigfile,   \* the signature file on disk: a document, or text that is no JSON
    aout,      \* the outcome of the last add_anchor call
    acalls,    \* number of add_anchor calls
    rng,       \* the state of numpy's global random generator (np.random)
    feats,     \* the feature mapping the caller holds, or None
    hout,      \* the outcome of the last call of the hashing module
    hcalls,    \* number of calls of the hashing module
    tpc,       \* per thread: the statement of compute_perceptual_hash it executes next
    tloc,      \* per thread: the arguments, locals and result of its call
    kpc,       \* per process sharing the key location: the statement it executes next
    kloc,      \* per process: its SigilIdentity's private_key, and its current call
    apc,       \* per add_anchor caller on one file: the statement it executes next
    aloc,      \* per add_anchor caller: its arguments, its sig_doc and its result
    issued     \* the ids store_hash has returned for newly inserted records

dbVars == <<rows, seq, now>>
seqVars == <<ops, last>>
concVars == <<lock, txn, pc, loc>>
openVars == <<schema, indexes, opc, mig, opens, legacy>>
sigVars == <<keyfiles, ident, nkeys, doc, orig, out, signs>>
anchorVars == <<sigfile, aout, acalls>>
hashVars == <<rng, feats, hout, hcalls>>
threadVars == <<tpc, tloc>>
procVars == <<kpc, kloc>>
callerVars == <<apc, aloc>>
restVars == <<procVars, callerVars, issued>>
moreVars == <<anchorVars, hashVars, threadVars, restVars>>
vars == <<dbVars, seqVars, concVars, openVars, sigVars, moreVars>>

----------------------------------------------------------------------------
(* Bounds of the model *)

\* width of a fingerprint in the model (256 bits in production; no code depends on it)
HashBits == 4
\* the fingerprints of a run differ from the sample in their first 0..MaxFlips bits
MaxFlips == 2
\* number of store_hash / delete_hash calls in a store run
MaxOps == 2
\* number of store_hash calls in a query run
MaxStores == 2
\* number of calls each connection makes in a concurrent run
MaxCalls == 2
\* number of times a database file is opened
MaxOpens == 2
\* number of keypairs that can be generated
MaxKeys == 2
\* number of sign_hash calls in a signing run
MaxSigns == 1
\* the clock runs from 0 to MaxTime
MaxTime == 1

----------------------------------------------------------------------------
(* Values *)

None == <<>>
Some(v) == <<v>>
Val(x) == x[1]

Min(a, b) == IF a <= b THEN a ELSE b
Max(a, b) == IF a >= b THEN a ELSE b

\* bool(x) of an optional str: None and "" are falsy
TruthyStr(x) == x # None /\ Val(x) # ""

\* bool(x) of an optional dict: None and {} are falsy
TruthyDict(x) == x # None /\ Val(x) # <<>>

----------------------------------------------------------------------------
(* Schema *)

SignatureColumns == {"signature", "public_key", "key_id", "signed_at", "signature_version"}

BaseColumns == {"id", "hash", "hash_hex", "video_id", "platform", "upload_date",
                "file_path", "frame_count", "metadata", "created_at"}

Columns == BaseColumns \cup SignatureColumns

\* the optional parameters of store_hash, which are also the merged columns
OptFields == {"video_id", "platform", "upload_date", "file_path", "frame_count",
              "metadata", "signature", "public_key", "key_id", "signed_at",
              "signature_version"}

----------------------------------------------------------------------------
(* Fingerprints and their textual forms *)

\* sample_hash of the tests: 1 at the even 0-based positions
BaseHash == [i \in 1..HashBits |-> IF i % 2 = 1 THEN 1 ELSE 0]

\* similar_hash[:k] = 1 - similar_hash[:k]
Flip(fp, k) == [i \in 1..Len(fp) |-> IF i <= k THEN 1 - fp[i] ELSE fp[i]]

\* the fingerprints of the runs: the sample with its first 0..MaxFlips bits flipped
Fingerprints == {Flip(BaseHash, k) : k \in 0..MaxFlips}

\* str(int) of one array entry: the entries of the runs are 0, 1 and 2
DigitChar(b) == IF b = 0 THEN "0" ELSE IF b = 1 THEN "1" ELSE "2"

\* ''.join(map(str, hash_binary.astype(int)))
HashStr(fp) == [i \in 1..Len(fp) |-> DigitChar(fp[i])]

\* int(hash_str, 2) succeeds: one or more characters, all of them 0 or 1
IsBase2(s) == Len(s) > 0 /\ \A i \in 1..Len(s) : s[i] \in {"0", "1"}

\* int(hash_str, 2)
RECURSIVE BinToInt(_)
BinToInt(s) ==
    IF Len(s) = 0 THEN 0
    ELSE 2 * BinToInt(SubSeq(s, 1, Len(s) - 1)) + (IF s[Len(s)] = "1" THEN 1 ELSE 0)

HexChars == <<"0", "1", "2", "3", "4", "5", "6", "7",
              "8", "9", "a", "b", "c", "d", "e", "f">>

\* hex(n)[2:]
RECURSIVE HexDigits(_)
HexDigits(n) ==
    IF n < 16 THEN <<HexChars[n + 1]>>
    ELSE HexDigits(n \div 16) \o <<HexChars[(n % 16) + 1]>>

HexWidth == 64

\* str.zfill(width)
ZFill(s, width) ==
    IF Len(s) >= width THEN s
    ELSE [i \in 1..(width - Len(s)) |-> "0"] \o s

\* hex(int(hash_str, 2))[2:].zfill(64)
HashHex(hs) == ZFill(HexDigits(BinToInt(hs)), HexWidth)

----------------------------------------------------------------------------
(* json.dumps / json.loads of the metadata column: the text keeps the dict's     *)
(* pairs in insertion order (no sort_keys here)                                 *)

JsonDumps(d) == [json |-> d]
JsonLoads(t) == t.json

\* metadata_json = json.dumps(metadata) if metadata else None
MetadataJson(metadata) == IF TruthyDict(metadata) THEN Some(JsonDumps(Val(metadata))) ELSE None

\* the value bound to each '?' of the INSERT and of the UPDATE
Bound(args, f) == IF f = "metadata" THEN MetadataJson(args[f]) ELSE args[f]

----------------------------------------------------------------------------
(* The SQL statements of store_hash and delete_hash, on a table value *)

RowsWithHash(tbl, hs) == {r \in tbl : r["hash"] = hs}

\* the INSERT on a table created without UNIQUE(hash)
SqlInsertNoUnique(tbl, sq, hs, args, t) ==
    LET id == sq + 1
        row == [c \in Columns |->
                  CASE c = "id" -> id
                    [] c = "hash" -> hs
                    [] c = "hash_hex" -> <<>>
                    [] c = "created_at" -> t
                    [] OTHER -> args[c]]
    IN [ok |-> TRUE, tbl |-> tbl \cup {row}, seq |-> id, lastrowid |-> Some(id)]

\* INSERT OR REPLACE in place of the INSERT: an existing row with the hash is
\* replaced by a fresh one
SqlInsertOrReplace(tbl, sq, hs, args, t) ==
    LET id == sq + 1
        row == [c \in Columns |->
                  CASE c = "id" -> id
                    [] c = "hash" -> hs
                    [] c = "hash_hex" -> <<>>
                    [] c = "created_at" -> t
                    [] OTHER -> args[c]]
    IN [ok |-> TRUE, tbl |-> {r \in tbl : r["hash"] # hs} \cup {row}, seq |-> id,
        lastrowid |-> Some(id)]

\* the INSERT on a table whose id is INTEGER PRIMARY KEY without AUTOINCREMENT:
\* the row gets the largest id of the table plus one
SqlInsertRowid(tbl, sq, hs, args, t) ==
    IF RowsWithHash(tbl, hs) # {}
    THEN [ok |-> FALSE, tbl |-> tbl, seq |-> sq, lastrowid |-> None]
    ELSE LET id == IF tbl = {} THEN 1
                   ELSE 1 + CHOOSE m \in {r["id"] : r \in tbl} :
                                \A r \in tbl : r["id"] <= m
             row == [c \in Columns |->
                       CASE c = "id" -> id
                         [] c = "hash" -> hs
                         [] c = "hash_hex" -> HashHex(hs)
                         [] c = "created_at" -> t
                         [] OTHER -> Bound(args, c)]
         IN [ok |-> TRUE, tbl |-> tbl \cup {row}, seq |-> id, lastrowid |-> Some(id)]

\* INSERT INTO hashes (...): UNIQUE(hash) aborts the statement, else the row gets
\* the next AUTOINCREMENT id.  Result: the table, the sequence, lastrowid, and ok.
SqlInsert(tbl, sq, hs, args, t) ==
    IF RowsWithHash(tbl, hs) # {}
    THEN [ok |-> FALSE, tbl |-> tbl, seq |-> sq, lastrowid |-> None]
    ELSE LET id == sq + 1
             row == [c \in Columns |->
                       CASE c = "id" -> id
                         [] c = "hash" -> hs
                         [] c = "hash_hex" -> HashHex(hs)
                         [] c = "created_at" -> t
                         [] OTHER -> Bound(args, c)]
         IN [ok |-> TRUE, tbl |-> tbl \cup {row}, seq |-> id, lastrowid |-> Some(id)]

\* COALESCE(?, column)
Coalesce(new, old) == IF new # None THEN new ELSE old

\* UPDATE hashes SET f = COALESCE(?, f), ... WHERE hash = ?
SqlUpdate(tbl, hs, args) ==
    {IF r["hash"] = hs
        THEN [c \in Columns |-> IF c \in OptFields
                                   THEN Coalesce(Bound(args, c), r[c])
                                   ELSE r[c]]
        ELSE r : r \in tbl}

\* cursor.lastrowid in place of the SELECT: nothing was inserted on this path
NoRowId(tbl, hs) == None

\* SELECT id FROM hashes WHERE hash = ?  and  result[0] if result else None
SqlSelectId(tbl, hs) ==
    IF RowsWithHash(tbl, hs) = {} THEN None
    ELSE Some((CHOOSE r \in RowsWithHash(tbl, hs) : TRUE)["id"])

\* a DELETE with 'id <= ?' in place of 'id = ?'
SqlDeleteUpTo(tbl, id) == {r \in tbl : r["id"] > id}

\* DELETE FROM hashes WHERE id = ?
SqlDelete(tbl, id) == {r \in tbl : r["id"] # id}

\* store_hash as one call on one connection: the table, the sequence and the
\* returned id
store_hash(tbl, sq, fp, args, t) ==
    LET hs == HashStr(fp)
        ins == SqlInsert(tbl, sq, hs, args, t)
    IN IF ~IsBase2(hs)
       THEN [tbl |-> tbl, seq |-> sq, ret |-> None, raised |-> Some("ValueError")]
       ELSE IF ins.ok
       THEN [tbl |-> ins.tbl, seq |-> ins.seq, ret |-> ins.lastrowid, raised |-> None]
       ELSE LET upd == SqlUpdate(tbl, hs, args)
            IN [tbl |-> upd, seq |-> sq, ret |-> SqlSelectId(upd, hs), raised |-> None]

\* delete_hash: the table and cursor.rowcount > 0
delete_hash(tbl, id) ==
    [tbl |-> SqlDelete(tbl, id), ret |-> SqlDelete(tbl, id) # tbl]

----------------------------------------------------------------------------
(* query_similar *)

\* cursor.fetchall(): the rows in rowid order
RECURSIVE FetchAll(_)
FetchAll(tbl) ==
    IF tbl = {} THEN <<>>
    ELSE LET r == CHOOSE x \in tbl : \A y \in tbl : x["id"] <= y["id"]
         IN <<r>> \o FetchAll(tbl \ {r})

\* SELECT ... FROM hashes [WHERE platform = ?]; the filter applies only 'if platform:'
SqlSelectAll(tbl, platform) ==
    IF TruthyStr(platform)
    THEN FetchAll({r \in tbl : r["platform"] = platform})
    ELSE FetchAll(tbl)

\* the sum taken without the first pair of characters
DistanceAfterFirst(a, b) == Cardinality({i \in 2..Min(Len(a), Len(b)) : a[i] # b[i]})

\* sum(c1 != c2 for c1, c2 in zip(query_hash_str, stored_hash_str))
Distance(a, b) == Cardinality({i \in 1..Min(Len(a), Len(b)) : a[i] # b[i]})

ResultKeys == Columns \cup {"hamming_distance"}

\* the dict appended for a matching row
ResultOf(r, d) ==
    [k \in ResultKeys |->
        CASE k = "hamming_distance" -> d
          [] k = "metadata" -> IF r[k] # None THEN Some(JsonLoads(Val(r[k]))) ELSE None
          [] OTHER -> r[k]]

\* the loop with 'distance < threshold' in place of 'distance <= threshold'
MatchesStrict(fetched, qs, threshold) ==
    LET all == [i \in 1..Len(fetched) |->
                   [k \in Columns \cup {"hamming_distance"} |->
                       IF k = "hamming_distance"
                       THEN Cardinality({j \in 1..Len(qs) : qs[j] # fetched[i]["hash"][j]})
                       ELSE fetched[i][k]]]
        Keep(e) == e["hamming_distance"] < threshold
    IN SelectSeq(all, Keep)

\* the loop over fetchall(): one result per row with distance <= threshold
Matches(fetched, qs, threshold) ==
    LET all == [i \in 1..Len(fetched) |->
                   ResultOf(fetched[i], Distance(qs, fetched[i]["hash"]))]
        Keep(e) == e["hamming_distance"] <= threshold
    IN SelectSeq(all, Keep)

\* results.sort(key=lambda x: x['hamming_distance']): a stable sort
RECURSIVE SortPass(_, _)
SortPass(s, keys) ==
    IF keys = {} THEN <<>>
    ELSE LET k == CHOOSE x \in keys : \A y \in keys : x <= y
             Has(e) == e["hamming_distance"] = k
         IN SelectSeq(s, Has) \o SortPass(s, keys \ {k})

\* the results left in fetch order
Unsorted(s) == s

SortByDistance(s) == SortPass(s, {s[i]["hamming_distance"] : i \in 1..Len(s)})

\* results[:limit]
Slice(s, limit) ==
    IF limit >= 0 THEN SubSeq(s, 1, Min(limit, Len(s)))
    ELSE SubSeq(s, 1, Max(0, Len(s) + limit))

query_similar(tbl, fp, threshold, platform, limit) ==
    Slice(SortByDistance(Matches(SqlSelectAll(tbl, platform), HashStr(fp), threshold)),
          limit)

----------------------------------------------------------------------------
(* Arguments of the calls *)

\* values of each optional parameter: two ordinary ones and the falsy non-null one
Vals(f) ==
    CASE f = "frame_count" -> <<30, 60, 0>>
      [] f = "metadata" -> << <<(<<"resolution", "1080p">>)>>,
                              <<(<<"duration", "120">>)>>,
                              <<>> >>
      [] OTHER -> <<"a", "b", "">>

AllNone == [f \in OptFields |-> None]
Full == [f \in OptFields |-> Some(Vals(f)[1])]
Single(f, i) == [g \in OptFields |-> IF g = f THEN Some(Vals(f)[i]) ELSE None]

\* store_hash arguments of the store runs: nothing, every parameter, one parameter,
\* or one parameter with its falsy value ("" , 0, {})
StoreArgs ==
    {AllNone, Full}
        \cup {Single(f, 2) : f \in OptFields}
        \cup {Single(f, 3) : f \in {"video_id", "frame_count", "metadata"}}

\* fingerprints of the store runs: the sample and the sample with one bit flipped
StoreFps == {BaseHash, Flip(BaseHash, 1)}

\* store_hash arguments of the query runs: only the platform varies
QueryStoreArgs == {AllNone, Single("platform", 1), Single("platform", 3)}

Platforms == {None, Some("a"), Some("")}
Thresholds == (-1)..MaxFlips
Limits == (-1)..(MaxStores + 1)

----------------------------------------------------------------------------
(* The calls on one connection *)

NoCall == [op |-> "none", fp |-> <<>>, args |-> AllNone, id |-> 0, ret |-> None,
           raised |-> None,
           pre |-> {}, rep |-> FALSE, prevRet |-> None,
           threshold |-> 0, platform |-> None, limit |-> 0, res |-> <<>>,
           stats |-> None]

\* store_hash arguments of the concurrent runs
ConcArgs == {AllNone, Single("video_id", 1), Single("platform", 2)}

Conns == {"A", "B"}

NoTxn == [tbl |-> {}, seq |-> 0]

\* a connection between calls: op, fp, args, id are the call's arguments; lastrowid
\* and deleted its locals; ret its result; path the branch store_hash took; n the
\* calls made; ovl whether the call ran while another connection's call was under
\* way; clean whether no row has been deleted since the call began
NoLocals == [op |-> "none", fp |-> <<>>, args |-> AllNone, id |-> 0, ret |-> None,
             lastrowid |-> None, deleted |-> FALSE, path |-> "none", n |-> 0,
             ovl |-> FALSE, clean |-> TRUE]

InitDb == rows = {} /\ seq = 0 /\ now = 0
InitSeq == ops = 0 /\ last = NoCall
InitConc ==
    /\ lock = None
    /\ txn = [c \in Conns |-> NoTxn]
    /\ pc = [c \in Conns |-> "idle"]
    /\ loc = [c \in Conns |-> NoLocals]

\* a database created and opened by this version of the code
InitOpened ==
    /\ schema = Columns
    /\ indexes = {"idx_hash", "idx_platform", "idx_key_id"}
    /\ opc = "open"
    /\ mig = [columns |-> Columns, i |-> 0]
    /\ opens = 1
    /\ legacy = [schema |-> {}, rows |-> {}]

\* no identity call has been made
NoOut == [op |-> "none", raised |-> None, ret |-> None]

\* no key location in use
InitNoIdentity ==
    /\ keyfiles = [private |-> None, public |-> None]
    /\ ident = [private_key |-> None, public_key |-> None]
    /\ nkeys = 0
    /\ doc = None /\ orig = None
    /\ out = NoOut
    /\ signs = 0

\* no add_anchor call has been made
NoAnchorOut == [op |-> "none", url |-> "", raised |-> None, ret |-> None, pre |-> None]

\* no signature file in use
InitNoAnchor == sigfile = None /\ aout = NoAnchorOut /\ acalls = 0

\* no call of the hashing module has been made: op is the call, frames and seed
\* its arguments, features the mapping handed to compute_perceptual_hash (None
\* when it was not called)
NoHashOut == [op |-> "none", frames |-> <<>>, seed |-> None, features |-> None,
              raised |-> None, ret |-> None]

\* the hashing module not in use: the generator in one of its states
InitNoHash == rng = 0 /\ feats = None /\ hout = NoHashOut /\ hcalls = 0

Threads == {1, 2}

\* a thread outside compute_perceptual_hash: features and seed are the call's
\* arguments, real_seed and projection its locals, raised and ret its outcome,
\* n the calls made
NoThreadLocals == [features |-> <<>>, seed |-> None, real_seed |-> 0,
                   projection |-> <<>>, raised |-> None, ret |-> None, n |-> 0]

InitNoThreads ==
    /\ tpc = [t \in Threads |-> "idle"]
    /\ tloc = [t \in Threads |-> NoThreadLocals]

Procs == {1, 2}

\* no process has constructed a SigilIdentity: private_key is the key it holds
\* in memory, call the method it is in, key the keypair that call generated
NoProcLocals == [private_key |-> None, call |-> "none", key |-> None, raised |-> None]

InitNoProcs ==
    /\ kpc = [p \in Procs |-> "start"]
    /\ kloc = [p \in Procs |-> NoProcLocals]

Callers == {1, 2}

\* no add_anchor call has been made: url is the call's argument, sig_doc its
\* local, raised and ret its outcome, n the calls made
NoCallerLocals == [url |-> "", sig_doc |-> None, raised |-> None, ret |-> None, n |-> 0]

InitNoCallers ==
    /\ apc = [c \in Callers |-> "idle"]
    /\ aloc = [c \in Callers |-> NoCallerLocals]

InitRest == InitNoProcs /\ InitNoCallers /\ issued = {}

InitMore == InitNoAnchor /\ InitNoHash /\ InitNoThreads /\ InitRest

Init == InitDb /\ InitSeq /\ InitConc /\ InitOpened /\ InitNoIdentity /\ InitMore

\* db.store_hash(fp, **args) at time t
StoreHash(fp, args, t) ==
    /\ LET r == store_hash(rows, seq, fp, args, t)
       IN /\ rows' = r.tbl
          /\ seq' = r.seq
          /\ last' = [NoCall EXCEPT !.op = "store", !.fp = fp, !.args = args,
                         !.ret = r.ret, !.raised = r.raised, !.pre = rows,
                         !.rep = (last.op = "store" /\ last.fp = fp /\ last.args = args),
                         !.prevRet = last.ret]
    /\ now' = t
    /\ ops' = ops + 1

\* db.delete_hash(id)
DeleteHash(id) ==
    /\ LET r == delete_hash(rows, id)
       IN /\ rows' = r.tbl
          /\ last' = [NoCall EXCEPT !.op = "delete", !.id = id, !.ret = Some(r.ret),
                         !.pre = rows]
    /\ ops' = ops + 1
    /\ UNCHANGED <<seq, now>>

\* db.query_similar(fp, threshold, platform, limit)
QuerySimilar(fp, threshold, platform, limit) ==
    /\ last.op # "query"   \* a query changes nothing: a second one reaches nothing new
    /\ last' = [NoCall EXCEPT !.op = "query", !.fp = fp, !.threshold = threshold,
                   !.platform = platform, !.limit = limit, !.pre = rows,
                   !.res = query_similar(rows, fp, threshold, platform, limit)]
    /\ UNCHANGED <<rows, seq, now, ops>>

Times == now..Min(now + 1, MaxTime)

\* the calls on the database leave the connections' steps, the schema and the
\* identity alone
DbFrame == UNCHANGED <<concVars, openVars, sigVars, moreVars>>

Next ==
    \/ \E fp \in StoreFps, args \in StoreArgs, t \in Times :
           ops < MaxOps /\ StoreHash(fp, args, t) /\ DbFrame
    \/ \E id \in 1..(seq + 1) :
           ops < MaxOps /\ DeleteHash(id) /\ DbFrame

Spec == Init /\ [][Next]_vars

NextQuery ==
    \/ \E fp \in Fingerprints, args \in QueryStoreArgs :
           ops < MaxStores /\ StoreHash(fp, args, now) /\ DbFrame
    \/ \E fp \in Fingerprints, th \in Thresholds, p \in Platforms, l \in Limits :
           QuerySimilar(fp, th, p, l) /\ DbFrame

SpecQuery == Init /\ [][NextQuery]_vars

\* the sample with its last entry dropped: an array of HashBits - 1 entries
ShortHash == SubSeq(BaseHash, 1, HashBits - 1)

\* the sample with a 2 as its first entry
NonBinaryHash == [BaseHash EXCEPT ![1] = 2]

\* arrays a caller can pass: two fingerprints, a shorter array, and one whose
\* entries are not all 0 or 1
AnyArrays == {BaseHash, Flip(BaseHash, 1), ShortHash, NonBinaryHash}

\* store_hash and query_similar called with any of these arrays
NextArrays ==
    \/ \E fp \in AnyArrays, args \in {AllNone, Single("platform", 1)} :
           ops < MaxStores /\ StoreHash(fp, args, now) /\ DbFrame
    \/ \E fp \in AnyArrays, th \in Thresholds, l \in Limits :
           QuerySimilar(fp, th, None, l) /\ DbFrame

SpecArrays == Init /\ [][NextArrays]_vars

\* every array of HashBits entries of 0 and 1
AllFingerprints == [1..HashBits -> {0, 1}]

\* fingerprints stored, then any fingerprint queried at any threshold
NextDistance ==
    \/ \E fp \in Fingerprints :
           ops < MaxStores /\ StoreHash(fp, AllNone, now) /\ DbFrame
    \/ \E fp \in AllFingerprints, th \in 0..HashBits :
           QuerySimilar(fp, th, None, MaxStores) /\ DbFrame

SpecDistance == Init /\ [][NextDistance]_vars

----------------------------------------------------------------------------
(* store_hash and delete_hash statement by statement, on connections of their own  *)
(* to one database file.  sqlite3 opens a transaction before an INSERT, UPDATE or  *)
(* DELETE; the statement takes the file's write lock, which the connection keeps   *)
(* until its commit, and a statement that finds the lock taken waits for it.       *)

Busy(c) == \E d \in Conns \ {c} : pc[d] # "idle"

\* entry of store_hash: the arguments are bound and hash_str is computed
BeginStore(c, fp, args) ==
    /\ pc[c] = "idle" /\ loc[c].n < MaxCalls
    /\ pc' = [pc EXCEPT ![c] = "insert"]
    /\ loc' = [d \in Conns |->
                 IF d = c
                 THEN [NoLocals EXCEPT !.op = "store", !.fp = fp, !.args = args,
                                       !.n = loc[c].n + 1, !.ovl = Busy(c)]
                 ELSE IF pc[d] # "idle" THEN [loc[d] EXCEPT !.ovl = TRUE] ELSE loc[d]]
    /\ UNCHANGED <<dbVars, lock, txn>>

\* cursor.execute(INSERT ...): on IntegrityError control goes to the except branch
\* with the transaction still open
StoreInsert(c) ==
    /\ pc[c] = "insert" /\ lock = None
    /\ LET r == SqlInsert(rows, seq, HashStr(loc[c].fp), loc[c].args, now)
       IN /\ txn' = [txn EXCEPT ![c] = [tbl |-> r.tbl, seq |-> r.seq]]
          /\ loc' = [loc EXCEPT ![c].lastrowid = r.lastrowid,
                                ![c].path = IF r.ok THEN "insert" ELSE "update"]
          /\ pc' = [pc EXCEPT ![c] = IF r.ok THEN "commit_insert" ELSE "update"]
    /\ lock' = Some(c)
    /\ UNCHANGED dbVars

\* self.conn.commit(); return cursor.lastrowid
StoreCommitInsert(c) ==
    /\ pc[c] = "commit_insert"
    /\ rows' = txn[c].tbl /\ seq' = txn[c].seq
    /\ lock' = None
    /\ txn' = [txn EXCEPT ![c] = NoTxn]
    /\ loc' = [loc EXCEPT ![c].ret = loc[c].lastrowid]
    /\ pc' = [pc EXCEPT ![c] = "idle"]
    /\ UNCHANGED now

\* cursor.execute(UPDATE ... COALESCE ...)
StoreUpdate(c) ==
    /\ pc[c] = "update"
    /\ txn' = [txn EXCEPT ![c].tbl = SqlUpdate(txn[c].tbl, HashStr(loc[c].fp), loc[c].args)]
    /\ pc' = [pc EXCEPT ![c] = "commit_update"]
    /\ UNCHANGED <<dbVars, lock, loc>>

\* self.conn.commit() of the except branch
StoreCommitUpdate(c) ==
    /\ pc[c] = "commit_update"
    /\ rows' = txn[c].tbl /\ seq' = txn[c].seq
    /\ lock' = None
    /\ txn' = [txn EXCEPT ![c] = NoTxn]
    /\ pc' = [pc EXCEPT ![c] = "select"]
    /\ UNCHANGED <<now, loc>>

\* cursor.execute(SELECT id ...); return result[0] if result else None
StoreSelect(c) ==
    /\ pc[c] = "select"
    /\ loc' = [loc EXCEPT ![c].ret = SqlSelectId(rows, HashStr(loc[c].fp))]
    /\ pc' = [pc EXCEPT ![c] = "idle"]
    /\ UNCHANGED <<dbVars, lock, txn>>

\* entry of delete_hash
BeginDelete(c, id) ==
    /\ pc[c] = "idle" /\ loc[c].n < MaxCalls
    /\ pc' = [pc EXCEPT ![c] = "delete"]
    /\ loc' = [d \in Conns |->
                 IF d = c
                 THEN [NoLocals EXCEPT !.op = "delete", !.id = id, !.n = loc[c].n + 1,
                                       !.ovl = Busy(c)]
                 ELSE IF pc[d] # "idle" THEN [loc[d] EXCEPT !.ovl = TRUE] ELSE loc[d]]
    /\ UNCHANGED <<dbVars, lock, txn>>

\* cursor.execute(DELETE ...)
DeleteExec(c) ==
    /\ pc[c] = "delete" /\ lock = None
    /\ LET r == delete_hash(rows, loc[c].id)
       IN /\ txn' = [txn EXCEPT ![c] = [tbl |-> r.tbl, seq |-> seq]]
          /\ loc' = [loc EXCEPT ![c].deleted = r.ret]
    /\ lock' = Some(c)
    /\ pc' = [pc EXCEPT ![c] = "commit_delete"]
    /\ UNCHANGED dbVars

\* self.conn.commit(); return cursor.rowcount > 0
DeleteCommit(c) ==
    /\ pc[c] = "commit_delete"
    /\ rows' = txn[c].tbl /\ seq' = txn[c].seq
    /\ lock' = None
    /\ txn' = [txn EXCEPT ![c] = NoTxn]
    /\ loc' = [d \in Conns |->
                 IF d = c THEN [loc[c] EXCEPT !.ret = Some(loc[c].deleted),
                                              !.clean = ~loc[c].deleted]
                 ELSE [loc[d] EXCEPT !.clean = loc[d].clean /\ ~loc[c].deleted]]
    /\ pc' = [pc EXCEPT ![c] = "idle"]
    /\ UNCHANGED now

ConcFrame == UNCHANGED <<seqVars, openVars, sigVars, moreVars>>

NextConc ==
    \/ \E c \in Conns : \E fp \in StoreFps, args \in ConcArgs :
           BeginStore(c, fp, args) /\ ConcFrame
    \/ \E c \in Conns : StoreInsert(c) /\ ConcFrame
    \/ \E c \in Conns : StoreCommitInsert(c) /\ ConcFrame
    \/ \E c \in Conns : StoreUpdate(c) /\ ConcFrame
    \/ \E c \in Conns : StoreCommitUpdate(c) /\ ConcFrame
    \/ \E c \in Conns : StoreSelect(c) /\ ConcFrame
    \/ \E c \in Conns : \E id \in 1..(seq + 1) : BeginDelete(c, id) /\ ConcFrame
    \/ \E c \in Conns : DeleteExec(c) /\ ConcFrame
    \/ \E c \in Conns : DeleteCommit(c) /\ ConcFrame

SpecConc == Init /\ [][NextConc]_vars

----------------------------------------------------------------------------
(* HashDatabase.__init__ on a database file that may have been written by an       *)
(* earlier version: _init_database, then _migrate_schema.  sqlite3 opens no        *)
(* transaction for CREATE and ALTER, so each statement is durable by itself and    *)
(* the process may stop between any two of them.                                   *)

\* new_columns, in the order the loop visits them
NewColumns == <<"signature", "public_key", "key_id", "signed_at", "signature_version">>

\* a row of an earlier version's table
LegacyRow(id, cols) ==
    [c \in cols |->
        CASE c = "id" -> id
          [] c = "hash" -> HashStr(Flip(BaseHash, id - 1))
          [] c = "hash_hex" -> HashHex(HashStr(Flip(BaseHash, id - 1)))
          [] c = "created_at" -> 0
          [] c = "platform" -> Some("a")
          [] c = "key_id" -> IF id = 1 THEN Some("a") ELSE None
          [] OTHER -> None]

LegacyIndexes(cols) ==
    {"idx_hash", "idx_platform"} \cup (IF "key_id" \in cols THEN {"idx_key_id"} ELSE {})

\* the file before the first open: absent, or a table with the base columns and any
\* of the signature columns, holding up to two rows
InitFile ==
    /\ schema \in {{}} \cup {BaseColumns \cup S : S \in SUBSET SignatureColumns}
    /\ \E n \in 0..2 :
          /\ rows = IF schema = {} THEN {} ELSE {LegacyRow(id, schema) : id \in 1..n}
          /\ seq = Cardinality(rows)
    /\ indexes \in IF schema = {} THEN {{}} ELSE {{}, LegacyIndexes(schema)}
    /\ opc = "closed"
    /\ mig = [columns |-> {}, i |-> 0]
    /\ opens = 0
    /\ legacy = [schema |-> schema, rows |-> rows]
    /\ now = 0

\* HashDatabase(db_path): sqlite3.connect
Connect ==
    /\ opc = "closed" /\ opens < MaxOpens
    /\ opc' = "create_table"
    /\ opens' = opens + 1
    /\ UNCHANGED <<dbVars, schema, indexes, mig, legacy>>

\* CREATE TABLE IF NOT EXISTS hashes (...)
CreateTable ==
    /\ opc = "create_table"
    /\ schema' = IF schema = {} THEN Columns ELSE schema
    /\ opc' = "idx_hash"
    /\ UNCHANGED <<dbVars, indexes, mig, opens, legacy>>

\* CREATE INDEX IF NOT EXISTS name ON hashes(col): fails on a column the table lacks
CreateIndex(at, name, col, then) ==
    /\ opc = at
    /\ IF name \in indexes
       THEN opc' = then /\ UNCHANGED indexes
       ELSE IF col \in schema
            THEN opc' = then /\ indexes' = indexes \cup {name}
            ELSE opc' = "failed" /\ UNCHANGED indexes    \* sqlite3.OperationalError
    /\ UNCHANGED <<dbVars, schema, mig, opens, legacy>>

CreateIdxHash == CreateIndex("idx_hash", "idx_hash", "hash", "idx_platform")
CreateIdxPlatform == CreateIndex("idx_platform", "idx_platform", "platform", "idx_key_id")
CreateIdxKeyId == CreateIndex("idx_key_id", "idx_key_id", "key_id", "table_info")

\* self.conn.commit(); _migrate_schema: PRAGMA table_info(hashes)
TableInfo ==
    /\ opc = "table_info"
    /\ mig' = [columns |-> schema, i |-> 1]
    /\ opc' = "migrate"
    /\ UNCHANGED <<dbVars, schema, indexes, opens, legacy>>

\* ALTER TABLE hashes ADD COLUMN col: the rows read NULL in the new column
AddColumn(tbl, col) ==
    {[c \in (DOMAIN r) \cup {col} |-> IF c \in DOMAIN r THEN r[c] ELSE None] : r \in tbl}

\* one turn of the loop over new_columns
MigrateColumn ==
    /\ opc = "migrate" /\ mig.i <= Len(NewColumns)
    /\ LET col == NewColumns[mig.i]
       IN IF col \notin mig.columns
          THEN schema' = schema \cup {col} /\ rows' = AddColumn(rows, col)
          ELSE UNCHANGED <<schema, rows>>
    /\ mig' = [mig EXCEPT !.i = mig.i + 1]
    /\ UNCHANGED <<seq, now, indexes, opc, opens, legacy>>

\* the loop is over: self.conn.commit(), and __init__ returns
MigrateDone ==
    /\ opc = "migrate" /\ mig.i > Len(NewColumns)
    /\ opc' = "open"
    /\ UNCHANGED <<dbVars, schema, indexes, mig, opens, legacy>>

\* db.close(), or the process stops: at any statement of an open, or afterwards
CloseOrStop ==
    /\ opc # "closed"
    /\ opc' = "closed"
    /\ UNCHANGED <<dbVars, schema, indexes, mig, opens, legacy>>

OpenFrame == UNCHANGED <<seqVars, concVars, sigVars, moreVars>>

NextOpen ==
    \/ Connect /\ OpenFrame
    \/ CreateTable /\ OpenFrame
    \/ CreateIdxHash /\ OpenFrame
    \/ CreateIdxPlatform /\ OpenFrame
    \/ CreateIdxKeyId /\ OpenFrame
    \/ TableInfo /\ OpenFrame
    \/ MigrateColumn /\ OpenFrame
    \/ MigrateDone /\ OpenFrame
    \/ CloseOrStop /\ OpenFrame

\* a database file, not yet opened by this version
InitOpen == InitFile /\ InitSeq /\ InitConc /\ InitNoIdentity /\ InitMore

SpecOpen == InitOpen /\ [][NextOpen]_vars

----------------------------------------------------------------------------
(* Python values of a signature document.  A value carries its type: a str, an  *)
(* int, None, a bytes object, a list, a tuple, or a dict (its items in          *)
(* insertion order, the keys str).  A str that is a Base64 text is kept as the  *)
(* bytes it encodes.                                                            *)

Str(s) == [str |-> s]
PyInt(n) == [int |-> n]
PyNone == [none |-> TRUE]
Bytes(s) == [bytes |-> s]
Dict(items) == [dict |-> items]
List(elems) == [list |-> elems]
Tuple(elems) == [tuple |-> elems]

IsStr(v) == "str" \in DOMAIN v
IsDict(v) == "dict" \in DOMAIN v

\* bool(v)
Truthy(v) ==
    CASE "str" \in DOMAIN v -> v.str # ""
      [] "int" \in DOMAIN v -> v.int # 0
      [] "none" \in DOMAIN v -> FALSE
      [] "bytes" \in DOMAIN v -> v.bytes # ""
      [] "dict" \in DOMAIN v -> v.dict # <<>>
      [] "list" \in DOMAIN v -> v.list # <<>>
      [] "tuple" \in DOMAIN v -> v.tuple # <<>>
      [] OTHER -> TRUE

\* key in d
HasKey(d, k) == IsDict(d) /\ \E i \in DOMAIN d.dict : d.dict[i][1] = k

\* d[k]
Get(d, k) == d.dict[CHOOSE i \in DOMAIN d.dict : d.dict[i][1] = k][2]

\* d[k] = v: a new key goes to the end
SetItem(d, k, v) ==
    IF HasKey(d, k)
    THEN Dict([i \in DOMAIN d.dict |-> IF d.dict[i][1] = k THEN <<k, v>> ELSE d.dict[i]])
    ELSE Dict(Append(d.dict, <<k, v>>))

Keys(d) == {d.dict[i][1] : i \in DOMAIN d.dict}

\* the items of a dict without key k
RECURSIVE ItemsWithout(_, _)
ItemsWithout(items, k) ==
    IF items = <<>> THEN <<>>
    ELSE IF items[1][1] = k THEN ItemsWithout(Tail(items), k)
    ELSE <<items[1]>> \o ItemsWithout(Tail(items), k)

\* del d[k]
DelItem(d, k) == Dict(ItemsWithout(d.dict, k))

\* a == b: two dicts are equal when they hold the same items, in any order
RECURSIVE PyEq(_, _)
PyEq(a, b) ==
    IF IsDict(a) /\ IsDict(b)
    THEN /\ Keys(a) = Keys(b)
         /\ \A k \in Keys(a) : PyEq(Get(a, k), Get(b, k))
    ELSE IF "list" \in DOMAIN a /\ "list" \in DOMAIN b
    THEN /\ Len(a.list) = Len(b.list)
         /\ \A i \in DOMAIN a.list : PyEq(a.list[i], b.list[i])
    ELSE IF "tuple" \in DOMAIN a /\ "tuple" \in DOMAIN b
    THEN /\ Len(a.tuple) = Len(b.tuple)
         /\ \A i \in DOMAIN a.tuple : PyEq(a.tuple[i], b.tuple[i])
    ELSE a = b

\* the strings used as dict keys, in the order sorted() puts them
KeyOrder == <<"algorithm", "codec", "filename", "hash_hex", "key_id", "metadata",
              "public_key", "signature", "signed_at", "timestamp", "video">>

Rank(k) == CHOOSE i \in DOMAIN KeyOrder : KeyOrder[i] = k

\* the items left in insertion order
UnsortedItems(items) == items

\* sorted(dct.items())
RECURSIVE SortedItems(_)
SortedItems(items) ==
    IF items = <<>> THEN <<>>
    ELSE LET m == CHOOSE i \in DOMAIN items :
                      \A j \in DOMAIN items : Rank(items[i][1]) <= Rank(items[j][1])
         IN <<items[m]>> \o
            SortedItems([i \in 1..(Len(items) - 1) |->
                            IF i < m THEN items[i] ELSE items[i + 1]])

\* ''.join(chars)
RECURSIVE Concat(_)
Concat(chars) == IF chars = <<>> THEN "" ELSE chars[1] \o Concat(Tail(chars))

DecimalDigits == <<"0", "1", "2", "3", "4", "5", "6", "7", "8", "9">>

\* str(n) of a natural number
RECURSIVE IntStr(_)
IntStr(n) ==
    IF n < 10 THEN DecimalDigits[n + 1]
    ELSE IntStr(n \div 10) \o DecimalDigits[(n % 10) + 1]

Quote(s) == "\"" \o s \o "\""

\* json.dumps raises TypeError on a bytes object, at any depth
RECURSIVE Serializable(_)
Serializable(v) ==
    CASE "bytes" \in DOMAIN v -> FALSE
      [] "dict" \in DOMAIN v -> \A i \in DOMAIN v.dict : Serializable(v.dict[i][2])
      [] "list" \in DOMAIN v -> \A i \in DOMAIN v.list : Serializable(v.list[i])
      [] "tuple" \in DOMAIN v -> \A i \in DOMAIN v.tuple : Serializable(v.tuple[i])
      [] OTHER -> TRUE

\* json.dumps(v, sort_keys=True, separators=(',', ':')) of a serializable value
RECURSIVE Dumps(_)
RECURSIVE DumpItems(_)
RECURSIVE DumpElems(_)
DumpElems(elems) ==
    IF elems = <<>> THEN ""
    ELSE Dumps(elems[1]) \o
         (IF Len(elems) = 1 THEN "" ELSE "," \o DumpElems(Tail(elems)))

DumpItems(items) ==
    IF items = <<>> THEN ""
    ELSE Quote(items[1][1]) \o ":" \o Dumps(items[1][2]) \o
         (IF Len(items) = 1 THEN "" ELSE "," \o DumpItems(Tail(items)))

Dumps(v) ==
    CASE "str" \in DOMAIN v -> Quote(v.str)
      [] "int" \in DOMAIN v -> IntStr(v.int)
      [] "none" \in DOMAIN v -> "null"
      [] "dict" \in DOMAIN v -> "{" \o DumpItems(SortedItems(v.dict)) \o "}"
      [] "list" \in DOMAIN v -> "[" \o DumpElems(v.list) \o "]"
      [] "tuple" \in DOMAIN v -> "[" \o DumpElems(v.tuple) \o "]"

\* json.loads(json.dumps(v, indent=2)) of a serializable value: a dict keeps its
\* items in the order they were written, a tuple comes back as a list
RECURSIVE JsonReload(_)
JsonReload(v) ==
    CASE "dict" \in DOMAIN v ->
             Dict([i \in DOMAIN v.dict |-> <<v.dict[i][1], JsonReload(v.dict[i][2])>>])
      [] "list" \in DOMAIN v -> List([i \in DOMAIN v.list |-> JsonReload(v.list[i])])
      [] "tuple" \in DOMAIN v -> List([i \in DOMAIN v.tuple |-> JsonReload(v.tuple[i])])
      [] OTHER -> v

\* the same value with the items of every dict in it inserted in reverse order
RECURSIVE Reversed(_)
Reversed(v) ==
    CASE "dict" \in DOMAIN v ->
             Dict([i \in DOMAIN v.dict |->
                      <<v.dict[Len(v.dict) + 1 - i][1],
                        Reversed(v.dict[Len(v.dict) + 1 - i][2])>>])
      [] "list" \in DOMAIN v -> List([i \in DOMAIN v.list |-> Reversed(v.list[i])])
      [] "tuple" \in DOMAIN v -> Tuple([i \in DOMAIN v.tuple |-> Reversed(v.tuple[i])])
      [] OTHER -> v

----------------------------------------------------------------------------
(* Ed25519 and Base64, symbolically: a signature names the private key and the  *)
(* message it was made from, and only that key's public key verifies it, on     *)
(* that message.                                                                *)

\* private_key.sign(msg): 64 bytes
Ed25519Sign(k, msg) == [signer |-> k, msg |-> msg]

\* the SubjectPublicKeyInfo encoding of a public key: 44 bytes
PublicBytesSpki(k) == [spki |-> k]

\* public_key.public_bytes(Raw, Raw): 32 bytes
PublicBytes(k) == [pub |-> k]

\* Ed25519PublicKey.from_public_bytes accepts 32 bytes
IsPublicBytes(b) == "pub" \in DOMAIN b

\* a verification that looks at the signer only
Ed25519VerifyAnyMessage(pkb, sig, msg) ==
    "signer" \in DOMAIN sig /\ sig.signer = pkb.pub

\* public_key.verify(sig, msg) does not raise InvalidSignature
Ed25519Verify(pkb, sig, msg) ==
    "signer" \in DOMAIN sig /\ sig.signer = pkb.pub /\ sig.msg = msg

\* base64.b64encode(b).decode('ascii')
B64Encode(b) == [b64 |-> b]

\* base64.b64decode(v): the empty text gives no bytes; a text that is no Base64
\* and a value that is no str raise
B64Decode(v) ==
    IF "b64" \in DOMAIN v THEN [ok |-> TRUE, bytes |-> v.b64]
    ELSE IF IsStr(v) /\ v.str = "" THEN [ok |-> TRUE, bytes |-> Bytes("")]
    ELSE [ok |-> FALSE, bytes |-> Bytes("")]

\* "SHA256:" + the unpadded Base64 of the SHA-256 of the public key
KeyId(k) == Str("SHA256:" \o IntStr(k))

\* datetime.utcnow().isoformat() + "Z"
IsoTime(t) == "2026-01-01T00:00:0" \o IntStr(t) \o "Z"

----------------------------------------------------------------------------
(* SigilIdentity: one object at one key location *)

\* len(hash_hex) a signed fingerprint must have
HashHexLen == 64

Keypair(k) == [private_key |-> Some(k), public_key |-> Some(k)]
NoKeypair == [private_key |-> None, public_key |-> None]

\* SigilIdentity(key_path): loads the keys when the private key file exists
InitIdentity ==
    /\ \E n \in 0..1 :
          /\ nkeys = n
          /\ keyfiles = IF n = 0 THEN [private |-> None, public |-> None]
                        ELSE [private |-> Some(n), public |-> Some(n)]
          /\ ident = IF n = 0 THEN NoKeypair ELSE Keypair(n)
    /\ doc = None /\ orig = None
    /\ out = NoOut
    /\ signs = 0

\* a generate that does not look at the files
generate_unchecked(files, id, n, overwrite) ==
    [raised |-> None,
     files |-> [private |-> Some(n + 1), public |-> Some(n + 1)],
     ident |-> Keypair(n + 1),
     nkeys |-> n + 1]

\* generate(overwrite): a new keypair, written to both files and loaded
generate(files, id, n, overwrite) ==
    IF files.private # None /\ ~overwrite
    THEN [raised |-> Some("FileExistsError"), files |-> files, ident |-> id, nkeys |-> n]
    ELSE [raised |-> None,
          files |-> [private |-> Some(n + 1), public |-> Some(n + 1)],
          ident |-> Keypair(n + 1),
          nkeys |-> n + 1]

\* the key_id property
key_id(id) ==
    IF id.public_key = None
    THEN [raised |-> Some("ValueError"), ret |-> None]
    ELSE [raised |-> None, ret |-> Some(KeyId(Val(id.public_key)))]

\* ensure_identity(): generates when no private key is loaded, returns key_id
ensure_identity(files, id, n) ==
    LET g == IF id.private_key = None
             THEN generate(files, id, n, FALSE)
             ELSE [raised |-> None, files |-> files, ident |-> id, nkeys |-> n]
    IN IF g.raised # None
       THEN [raised |-> g.raised, ret |-> None,
             files |-> g.files, ident |-> g.ident, nkeys |-> g.nkeys]
       ELSE [raised |-> key_id(g.ident).raised, ret |-> key_id(g.ident).ret,
             files |-> g.files, ident |-> g.ident, nkeys |-> g.nkeys]

\* metadata or {}
MetadataOrEmpty(metadata) == IF Truthy(metadata) THEN metadata ELSE Dict(<<>>)

\* sign_hash(hash_hex, metadata) at time t
sign_hash(id, hash_hex, metadata, t) ==
    IF id.private_key = None
    THEN [raised |-> Some("ValueError"), ret |-> None]
    ELSE IF ~(IsStr(hash_hex) /\ Len(hash_hex.str) = HashHexLen)
    THEN [raised |-> Some("ValueError"), ret |-> None]
    ELSE
      LET claim == Dict(<< <<"hash_hex", hash_hex>>,
                           <<"metadata", MetadataOrEmpty(metadata)>>,
                           <<"timestamp", Str(IsoTime(t))>> >>)
      IN IF ~Serializable(claim)
         THEN [raised |-> Some("TypeError"), ret |-> None]
         ELSE
           LET signature_bytes == Ed25519Sign(Val(id.private_key), Dumps(claim))
               proof == Dict(<< <<"signature", B64Encode(signature_bytes)>>,
                                <<"public_key",
                                  B64Encode(PublicBytes(Val(id.public_key)))>>,
                                <<"key_id", Val(key_id(id).ret)>>,
                                <<"algorithm", Str("Ed25519")>>,
                                <<"signed_at", Get(claim, "timestamp")>> >>)
           IN [raised |-> None,
               ret |-> Some([claim |-> claim, proof |-> proof,
                             anchors |-> <<>>, version |-> "1.0"])]

\* the result of the except branch
Failed(msg) == <<FALSE, Some("Verification failed: " \o msg)>>

\* verify_signature(signature_doc)
verify_signature(d) ==
    IF "claim" \notin DOMAIN d
    THEN Failed("object has no attribute 'get'")
    ELSE
    LET claim == d.claim
        proof == d.proof
    IN IF ~Truthy(claim) \/ ~Truthy(proof)
       THEN <<FALSE, Some("Missing 'claim' or 'proof' in signature document")>>
       ELSE IF ~Serializable(claim) THEN Failed("Object is not JSON serializable")
       ELSE IF ~HasKey(proof, "signature") THEN Failed("'signature'")
       ELSE IF ~B64Decode(Get(proof, "signature")).ok THEN Failed("Incorrect padding")
       ELSE IF ~HasKey(proof, "public_key") THEN Failed("'public_key'")
       ELSE IF ~B64Decode(Get(proof, "public_key")).ok THEN Failed("Incorrect padding")
       ELSE
         LET signature_bytes == B64Decode(Get(proof, "signature")).bytes
             public_key_bytes == B64Decode(Get(proof, "public_key")).bytes
         IN IF ~IsPublicBytes(public_key_bytes)
            THEN Failed("An Ed25519 public key is 32 bytes long")
            ELSE IF ~Ed25519Verify(public_key_bytes, signature_bytes, Dumps(claim))
            THEN Failed("")
            ELSE <<TRUE, None>>

\* the fingerprint as its 64 hex characters
HexText(fp) == Concat(HashHex(HashStr(fp)))

\* the hex text of two fingerprints
ValidHex == {Str(HexText(fp)) : fp \in StoreFps}

\* hash_hex arguments: two fingerprints, a short string, a number, and 64
\* characters that are no hex digits
HashHexArgs ==
    ValidHex \cup {Str("abc"), PyInt(7), Str(Concat([i \in 1..HashHexLen |-> "z"]))}

\* metadata arguments: none, empty, flat, nested, and one json cannot serialise
MetadataArgs ==
    {PyNone,
     Dict(<<>>),
     Dict(<< <<"filename", Str("a.mp4")>> >>),
     Dict(<< <<"video", Dict(<< <<"codec", Str("h264")>> >>)>>,
             <<"filename", Str("a.mp4")>> >>),
     Dict(<< <<"filename", Bytes("a")>> >>)}

\* the values a holder of the document can put into a field
TamperValues(part, key) ==
    CASE part = "claim" /\ key = "hash_hex" ->
             ValidHex \cup {PyNone}
      [] part = "claim" /\ key = "metadata" -> MetadataArgs
      [] part = "claim" /\ key = "timestamp" -> {Str(IsoTime(t)) : t \in 0..MaxTime}
      [] part = "proof" /\ key = "signature" ->
             {B64Encode(Ed25519Sign(k, Dumps(SetItem(Val(orig).claim, "hash_hex", h)))) :
                  k \in 1..MaxKeys, h \in ValidHex}
               \cup {Str(""), Str("abc"), PyInt(7)}
      [] part = "proof" /\ key = "public_key" ->
             {B64Encode(PublicBytes(k)) : k \in 1..MaxKeys}
               \cup {B64Encode(PublicBytesSpki(k)) : k \in 1..MaxKeys}
               \cup {Str("abc"), PyInt(7)}
      [] part = "proof" /\ key = "key_id" -> {KeyId(k) : k \in 1..MaxKeys}
      [] part = "proof" /\ key = "algorithm" -> {Str("Ed25519"), Str("RSA")}
      [] part = "proof" /\ key = "signed_at" -> {Str(IsoTime(t)) : t \in 0..MaxTime}

Generate(overwrite) ==
    /\ overwrite \/ keyfiles.private = None => nkeys < MaxKeys
    /\ LET g == generate(keyfiles, ident, nkeys, overwrite)
       IN /\ keyfiles' = g.files /\ ident' = g.ident /\ nkeys' = g.nkeys
          /\ out' = [op |-> IF overwrite THEN "generate_overwrite" ELSE "generate",
                     raised |-> g.raised, ret |-> None]
    /\ UNCHANGED <<dbVars, doc, orig, signs>>

EnsureIdentity ==
    /\ ident.private_key = None /\ keyfiles.private = None => nkeys < MaxKeys
    /\ LET e == ensure_identity(keyfiles, ident, nkeys)
       IN /\ keyfiles' = e.files /\ ident' = e.ident /\ nkeys' = e.nkeys
          /\ out' = [op |-> "ensure_identity", raised |-> e.raised, ret |-> e.ret]
    /\ UNCHANGED <<dbVars, doc, orig, signs>>

\* a sign_hash that provisions a keypair when none is loaded
SignHashProvisioning(hash_hex, metadata, t) ==
    /\ signs < MaxSigns /\ nkeys < MaxKeys
    /\ LET g == IF ident.private_key = None
                THEN generate_unchecked(keyfiles, ident, nkeys, TRUE)
                ELSE [files |-> keyfiles, ident |-> ident, nkeys |-> nkeys]
           s == sign_hash(g.ident, hash_hex, metadata, t)
       IN /\ out' = [op |-> "sign_hash", raised |-> s.raised, ret |-> None]
          /\ keyfiles' = g.files /\ ident' = g.ident /\ nkeys' = g.nkeys
          /\ IF s.raised = None
             THEN doc' = s.ret /\ orig' = s.ret
             ELSE UNCHANGED <<doc, orig>>
    /\ signs' = signs + 1
    /\ now' = t
    /\ UNCHANGED <<rows, seq>>

\* sig_doc = identity.sign_hash(hash_hex, metadata)
SignHash(hash_hex, metadata, t) ==
    /\ signs < MaxSigns
    /\ LET s == sign_hash(ident, hash_hex, metadata, t)
       IN /\ out' = [op |-> "sign_hash", raised |-> s.raised, ret |-> None]
          /\ IF s.raised = None
             THEN doc' = s.ret /\ orig' = s.ret
             ELSE UNCHANGED <<doc, orig>>
    /\ signs' = signs + 1
    /\ now' = t
    /\ UNCHANGED <<rows, seq, keyfiles, ident, nkeys>>

\* sig_doc[part][key] = v, on the document as it was signed, with a value other
\* than the one it holds
Tamper(part, key, v) ==
    /\ doc # None /\ doc = orig
    /\ ~PyEq(v, Get(Val(doc)[part], key))
    /\ doc' = Some([Val(doc) EXCEPT ![part] = SetItem(@, key, v)])
    /\ out' = [op |-> "tamper", raised |-> None, ret |-> None]
    /\ UNCHANGED <<dbVars, keyfiles, ident, nkeys, orig, signs>>

\* del sig_doc[part][key], on the document as it was signed
Remove(part, key) ==
    /\ doc # None /\ doc = orig
    /\ doc' = Some([Val(doc) EXCEPT ![part] = DelItem(@, key)])
    /\ out' = [op |-> "tamper", raised |-> None, ret |-> None]
    /\ UNCHANGED <<dbVars, keyfiles, ident, nkeys, orig, signs>>

\* del sig_doc[part], on the document as it was signed: .get(part) gives None
RemovePart(part) ==
    /\ doc # None /\ doc = orig
    /\ doc' = Some([Val(doc) EXCEPT ![part] = PyNone])
    /\ out' = [op |-> "tamper", raised |-> None, ret |-> None]
    /\ UNCHANGED <<dbVars, keyfiles, ident, nkeys, orig, signs>>

\* the caller holds a value that is no document: None, a str
NoDocument(v) ==
    /\ doc = orig
    /\ doc' = Some(v)
    /\ out' = [op |-> "tamper", raised |-> None, ret |-> None]
    /\ UNCHANGED <<dbVars, keyfiles, ident, nkeys, orig, signs>>

\* SigilIdentity.verify_signature(sig_doc)
VerifySignature ==
    /\ doc # None
    /\ out' = [op |-> "verify_signature", raised |-> None, ret |-> verify_signature(Val(doc))]
    /\ UNCHANGED <<dbVars, keyfiles, ident, nkeys, doc, orig, signs>>

ClaimKeys == {"hash_hex", "metadata", "timestamp"}
ProofKeys == {"signature", "public_key", "key_id", "algorithm", "signed_at"}

SigFrame == UNCHANGED <<seqVars, concVars, openVars, moreVars>>

NextSig ==
    \/ \E overwrite \in BOOLEAN : Generate(overwrite) /\ SigFrame
    \/ EnsureIdentity /\ SigFrame
    \/ \E hash_hex \in HashHexArgs, metadata \in MetadataArgs, t \in Times :
           SignHash(hash_hex, metadata, t) /\ SigFrame
    \/ /\ doc # None /\ doc = orig
       /\ \E key \in ClaimKeys : \E v \in TamperValues("claim", key) :
              Tamper("claim", key, v)
       /\ SigFrame
    \/ /\ doc # None /\ doc = orig
       /\ \E key \in ProofKeys : \E v \in TamperValues("proof", key) :
              Tamper("proof", key, v)
       /\ SigFrame
    \/ \E key \in ClaimKeys : Remove("claim", key) /\ SigFrame
    \/ \E key \in ProofKeys : Remove("proof", key) /\ SigFrame
    \/ \E part \in {"claim", "proof"} : RemovePart(part) /\ SigFrame
    \/ \E v \in {PyNone, Str("doc")} : NoDocument(v) /\ SigFrame
    \/ VerifySignature /\ SigFrame

\* an identity object, constructed
InitSig == InitDb /\ InitSeq /\ InitConc /\ InitOpened /\ InitIdentity /\ InitMore

SpecSig == InitSig /\ [][NextSig]_vars

----------------------------------------------------------------------------
(* A signed document whose keys are reordered, or that is written to JSON and  *)
(* read back, before it is verified (SpecOrder)                                *)

\* metadata arguments: flat, nested, and nested with a tuple and a list
OrderMetadataArgs ==
    {Dict(<< <<"filename", Str("a.mp4")>> >>),
     Dict(<< <<"video", Dict(<< <<"codec", Str("h264")>>,
                                <<"filename", Tuple(<<PyInt(1), Str("a")>>)>> >>)>>,
             <<"filename", List(<<Dict(<< <<"key_id", PyNone>>,
                                          <<"codec", PyInt(2)>> >>)>>)>> >>)}

\* the caller rebuilds claim and proof with their keys in another order
ReorderKeys ==
    /\ doc # None
    /\ doc' = Some([Val(doc) EXCEPT !.claim = Reversed(@), !.proof = Reversed(@)])
    /\ doc' # doc
    /\ out' = [op |-> "reorder", raised |-> None, ret |-> None]
    /\ UNCHANGED <<dbVars, keyfiles, ident, nkeys, orig, signs>>

\* sig_doc = json.loads(json.dumps(sig_doc, indent=2))
Reload ==
    /\ doc # None
    /\ Serializable(Val(doc).claim) /\ Serializable(Val(doc).proof)
    /\ doc' = Some([Val(doc) EXCEPT !.claim = JsonReload(@), !.proof = JsonReload(@)])
    /\ out' = [op |-> "reload", raised |-> None, ret |-> None]
    /\ UNCHANGED <<dbVars, keyfiles, ident, nkeys, orig, signs>>

NextOrder ==
    \/ EnsureIdentity /\ SigFrame
    \/ \E hash_hex \in ValidHex, metadata \in OrderMetadataArgs, t \in Times :
           SignHash(hash_hex, metadata, t) /\ SigFrame
    \/ /\ doc # None /\ doc = orig
       /\ \E key \in ClaimKeys : \E v \in TamperValues("claim", key) :
              Tamper("claim", key, v)
       /\ SigFrame
    \/ ReorderKeys /\ SigFrame
    \/ Reload /\ SigFrame
    \/ VerifySignature /\ SigFrame

SpecOrder == InitSig /\ [][NextOrder]_vars

----------------------------------------------------------------------------
(* Processes that share one key location, each with its own SigilIdentity      *)
(* (SpecKeys).  A process takes one step at a time: the statements of generate *)
(* that touch the key files are separate steps.                                *)

\* SigilIdentity(key_path): loads the private key when its file exists
Construct(p) ==
    /\ kpc[p] = "start"
    /\ kpc' = [kpc EXCEPT ![p] = "ready"]
    /\ kloc' = [kloc EXCEPT ![p].private_key = keyfiles.private]
    /\ UNCHANGED <<dbVars, sigVars>>

\* ensure_identity() is entered: with a key in memory it returns key_id at once,
\* without one it calls generate()
CallEnsureIdentity(p) ==
    /\ kpc[p] = "ready"
    /\ kpc' = [kpc EXCEPT ![p] = IF kloc[p].private_key = None THEN "exists" ELSE "ready"]
    /\ kloc' = [kloc EXCEPT ![p].call = "ensure_identity", ![p].raised = None,
                            ![p].key = None]
    /\ UNCHANGED <<dbVars, sigVars>>

\* generate(overwrite=False) is entered
CallGenerate(p) ==
    /\ kpc[p] = "ready"
    /\ kpc' = [kpc EXCEPT ![p] = "exists"]
    /\ kloc' = [kloc EXCEPT ![p].call = "generate", ![p].raised = None, ![p].key = None]
    /\ UNCHANGED <<dbVars, sigVars>>

\* if self.private_key_path.exists() and not overwrite: raise FileExistsError;
\* otherwise Ed25519PrivateKey.generate() and the two serialisations
ExistsCheck(p) ==
    /\ kpc[p] = "exists"
    /\ IF keyfiles.private # None
       THEN /\ kpc' = [kpc EXCEPT ![p] = "ready"]
            /\ kloc' = [kloc EXCEPT ![p].raised = Some("FileExistsError")]
            /\ UNCHANGED nkeys
       ELSE /\ nkeys < MaxKeys
            /\ kpc' = [kpc EXCEPT ![p] = "write_private"]
            /\ kloc' = [kloc EXCEPT ![p].key = Some(nkeys + 1)]
            /\ nkeys' = nkeys + 1
    /\ UNCHANGED <<dbVars, keyfiles, ident, doc, orig, out, signs>>

\* self.private_key_path.write_bytes(private_pem)
WritePrivate(p) ==
    /\ kpc[p] = "write_private"
    /\ keyfiles' = [keyfiles EXCEPT !.private = kloc[p].key]
    /\ kpc' = [kpc EXCEPT ![p] = "write_public"]
    /\ UNCHANGED <<dbVars, ident, nkeys, doc, orig, out, signs, kloc>>

\* self.public_key_path.write_bytes(public_pem); self.private_key = private_key
WritePublic(p) ==
    /\ kpc[p] = "write_public"
    /\ keyfiles' = [keyfiles EXCEPT !.public = kloc[p].key]
    /\ kpc' = [kpc EXCEPT ![p] = "ready"]
    /\ kloc' = [kloc EXCEPT ![p].private_key = kloc[p].key]
    /\ UNCHANGED <<dbVars, ident, nkeys, doc, orig, out, signs>>

KeysFrame ==
    UNCHANGED <<seqVars, concVars, openVars, anchorVars, hashVars, threadVars,
                callerVars, issued>>

NextKeys ==
    \/ \E p \in Procs : Construct(p) /\ KeysFrame
    \/ \E p \in Procs : CallEnsureIdentity(p) /\ KeysFrame
    \/ \E p \in Procs : CallGenerate(p) /\ KeysFrame
    \/ \E p \in Procs : ExistsCheck(p) /\ KeysFrame
    \/ \E p \in Procs : WritePrivate(p) /\ KeysFrame
    \/ \E p \in Procs : WritePublic(p) /\ KeysFrame

SpecKeys == InitSig /\ [][NextKeys]_vars

----------------------------------------------------------------------------
(* add_anchor on one signature file, one call after the other *)

\* number of add_anchor calls in an anchoring run
MaxAnchorCalls == 3

\* a file whose text is no JSON: a write that stopped part way
Corrupt == [corrupt |-> TRUE]

\* the document sign_hash wrote to the file
SignedDoc == Val(sign_hash(Keypair(1), CHOOSE h \in ValidHex : TRUE, PyNone, 0).ret)

Urls == {"https://twitter.com/user/status/123", "https://github.com/user/repo/issues/1"}
AnchorTypes == {"twitter", "github"}

\* metadata arguments of add_anchor: none, empty, flat, and one json cannot serialise
AnchorMetadataArgs ==
    {PyNone, Dict(<<>>), Dict(<< <<"filename", Str("a.mp4")>> >>),
     Dict(<< <<"filename", Bytes("a")>> >>)}

\* new_anchor
NewAnchor(anchor_type, url, metadata, t) ==
    Dict(<< <<"type", Str(anchor_type)>>, <<"url", Str(url)>>,
            <<"anchored_at", Str(IsoTime(t))>> >>
         \o (IF Truthy(metadata) THEN << <<"metadata", metadata>> >> ELSE <<>>))

\* if 'anchors' not in sig_doc: sig_doc['anchors'] = []
WithAnchors(d) ==
    IF "anchors" \in DOMAIN d THEN d
    ELSE [f \in (DOMAIN d) \cup {"anchors"} |-> IF f = "anchors" THEN <<>> ELSE d[f]]

\* a loop that finds no duplicate
NeverAnchored(d, url) == FALSE

\* some existing_anchor['url'] == url
Anchored(d, url) == \E i \in DOMAIN d.anchors : Get(d.anchors[i], "url") = Str(url)

\* add_anchor(signature_path, anchor_type, url, metadata) at time t, on a file
\* with content file
add_anchor(file, anchor_type, url, metadata, t) ==
    IF file = Corrupt
    THEN [raised |-> Some("JSONDecodeError"), ret |-> None, file |-> file]
    ELSE
      LET sig_doc == WithAnchors(file)
          new_anchor == NewAnchor(anchor_type, url, metadata, t)
          appended == [sig_doc EXCEPT !.anchors = Append(@, new_anchor)]
      IN IF Anchored(sig_doc, url)
         THEN [raised |-> None, ret |-> Some(sig_doc), file |-> file]
         ELSE IF ~Serializable(new_anchor)
         THEN [raised |-> Some("TypeError"), ret |-> None, file |-> Corrupt]
         ELSE [raised |-> None, ret |-> Some(appended), file |-> appended]

\* the signature file before the first call: as sign_hash wrote it, without the
\* anchors key, or with anchors of distinct urls
InitAnchor ==
    /\ sigfile \in
          {Some(SignedDoc),
           Some([f \in {"claim", "proof", "version"} |-> SignedDoc[f]])}
            \cup {Some([SignedDoc EXCEPT !.anchors = <<NewAnchor("twitter", u, PyNone, 0)>>]) :
                     u \in Urls}
    /\ aout = NoAnchorOut
    /\ acalls = 0

AddAnchor(anchor_type, url, metadata, t) ==
    /\ acalls < MaxAnchorCalls
    /\ LET a == add_anchor(Val(sigfile), anchor_type, url, metadata, t)
       IN /\ sigfile' = Some(a.file)
          /\ aout' = [op |-> "add_anchor", url |-> url, raised |-> a.raised,
                      ret |-> a.ret, pre |-> sigfile]
    /\ acalls' = acalls + 1
    /\ now' = t
    /\ UNCHANGED <<rows, seq>>

AnchorFrame ==
    UNCHANGED <<seqVars, concVars, openVars, sigVars, hashVars, threadVars, restVars>>

NextAnchor ==
    \E anchor_type \in AnchorTypes, url \in Urls, metadata \in AnchorMetadataArgs,
       t \in Times :
        AddAnchor(anchor_type, url, metadata, t) /\ AnchorFrame

InitAnchoring ==
    InitDb /\ InitSeq /\ InitConc /\ InitOpened /\ InitNoIdentity /\ InitAnchor
        /\ InitNoHash /\ InitNoThreads /\ InitRest

SpecAnchor == InitAnchoring /\ [][NextAnchor]_vars

----------------------------------------------------------------------------
(* add_anchor called by several processes on one signature file (SpecCallers). *)
(* A caller takes one step at a time: reading the file, the duplicate check    *)
(* with the append, opening the file for writing, and json.dump are separate   *)
(* steps.                                                                      *)

\* sig_doc = json.load(f), and the anchors key is added when missing
Load(c, url) ==
    /\ apc[c] = "idle" /\ aloc[c].n < MaxCalls
    /\ IF sigfile = Some(Corrupt)
       THEN /\ apc' = apc
            /\ aloc' = [aloc EXCEPT ![c] =
                           [NoCallerLocals EXCEPT !.url = url, !.n = aloc[c].n + 1,
                                                  !.raised = Some("JSONDecodeError")]]
       ELSE /\ apc' = [apc EXCEPT ![c] = "check"]
            /\ aloc' = [aloc EXCEPT ![c] =
                           [NoCallerLocals EXCEPT !.url = url, !.n = aloc[c].n + 1,
                                                  !.sig_doc = Some(WithAnchors(Val(sigfile)))]]
    /\ UNCHANGED <<dbVars, anchorVars>>

\* the duplicate loop: return sig_doc, or sig_doc['anchors'].append(new_anchor)
CheckAppend(c, anchor_type) ==
    /\ apc[c] = "check"
    /\ IF Anchored(Val(aloc[c].sig_doc), aloc[c].url)
       THEN /\ apc' = [apc EXCEPT ![c] = "idle"]
            /\ aloc' = [aloc EXCEPT ![c].ret = aloc[c].sig_doc]
       ELSE /\ apc' = [apc EXCEPT ![c] = "open"]
            /\ aloc' = [aloc EXCEPT ![c].sig_doc =
                           Some([Val(@) EXCEPT !.anchors =
                                    Append(@, NewAnchor(anchor_type, aloc[c].url,
                                                        PyNone, now))])]
    /\ UNCHANGED <<dbVars, anchorVars>>

\* signature_path.open('w'): the file is truncated
OpenForWrite(c) ==
    /\ apc[c] = "open"
    /\ sigfile' = Some(Corrupt)
    /\ apc' = [apc EXCEPT ![c] = "dump"]
    /\ UNCHANGED <<dbVars, aout, acalls, aloc>>

\* json.dump(sig_doc, f, indent=2); return sig_doc
DumpDoc(c) ==
    /\ apc[c] = "dump"
    /\ sigfile' = aloc[c].sig_doc
    /\ apc' = [apc EXCEPT ![c] = "idle"]
    /\ aloc' = [aloc EXCEPT ![c].ret = aloc[c].sig_doc]
    /\ UNCHANGED <<dbVars, aout, acalls>>

CallersFrame ==
    UNCHANGED <<seqVars, concVars, openVars, sigVars, hashVars, threadVars,
                procVars, issued>>

NextCallers ==
    \/ \E c \in Callers, url \in Urls : Load(c, url) /\ CallersFrame
    \/ \E c \in Callers, anchor_type \in AnchorTypes :
           CheckAppend(c, anchor_type) /\ CallersFrame
    \/ \E c \in Callers : OpenForWrite(c) /\ CallersFrame
    \/ \E c \in Callers : DumpDoc(c) /\ CallersFrame

SpecCallers == InitAnchoring /\ [][NextCallers]_vars

----------------------------------------------------------------------------
(* core/perceptual_hash.py: feature extraction and the perceptual hash.          *)
(*                                                                               *)
(* A frame is known by the responses the cv2 operators give on it: one edge      *)
(* entry, one texture entry, one saliency entry and one histogram entry, each a  *)
(* flattened array.  Real numbers are exact fractions: a vector of numerators    *)
(* over one positive denominator, so that the normalisation and the running mean *)
(* are computed without rounding.  np.random is a generator of period 64 whose   *)
(* samples are small integers; seeding it fixes every later sample.              *)

\* frames of a video
MaxFrames == 1

\* calls of the hashing module in one run
MaxHashCalls == 3

\* calls of compute_perceptual_hash by one thread
MaxThreadCalls == 1

\* the generator states a process can start in: 0..MaxEntropy
MaxEntropy == 2

\* a frame with the given responses
Frame(e, t, s, c) == [edges |-> <<e>>, textures |-> <<t>>, saliency |-> <<s>>,
                      color_hist |-> <<c>>]

\* a black frame, two textured ones, and one of a single flat colour
Frames == {Frame(0, 0, 0, 0), Frame(0, 3, 4, 0), Frame(0, 4, -3, 0), Frame(0, 0, 0, 1)}

\* the frame lists load_video_frames can return: from none to MaxFrames frames
FrameLists == UNION {[1..n -> Frames] : n \in 0..MaxFrames}

\* cv2.resize(cv2.Canny(gray, 100, 200), (32, 32))
Canny(frame) == frame.edges

\* np.stack of the resized cv2.filter2D responses to the Gabor kernels
Gabor(frame) == frame.textures

\* cv2.resize(cv2.Laplacian(gray, cv2.CV_64F), (32, 32))
Laplacian(frame) == frame.saliency

\* cv2.normalize(cv2.calcHist(...)).flatten()
CalcHist(frame) == frame.color_hist

\* extract_perceptual_features: features[i] for every frame, in frame order; the
\* dict is the sequence of its values, key i at position i + 1
extract_perceptual_features(video_frames) ==
    [i \in 1..Len(video_frames) |->
        [edges |-> Canny(video_frames[i]),
         textures |-> Gabor(video_frames[i]),
         saliency |-> Laplacian(video_frames[i]),
         color_hist |-> CalcHist(video_frames[i])]]

\* the feature mappings of the frame lists
FeatureMaps == {extract_perceptual_features(fl) : fl \in FrameLists}

----------------------------------------------------------------------------
(* The seed *)

IsInt(v) == "int" \in DOMAIN v

\* str.strip() of a sequence of characters
RECURSIVE LStrip(_)
LStrip(cs) == IF cs # <<>> /\ cs[1] = " " THEN LStrip(Tail(cs)) ELSE cs

RECURSIVE RStrip(_)
RStrip(cs) ==
    IF cs # <<>> /\ cs[Len(cs)] = " " THEN RStrip(SubSeq(cs, 1, Len(cs) - 1)) ELSE cs

Strip(cs) == LStrip(RStrip(cs))

IsDigit(c) == \E i \in DOMAIN DecimalDigits : DecimalDigits[i] = c

DigitValue(c) == (CHOOSE i \in DOMAIN DecimalDigits : DecimalDigits[i] = c) - 1

\* the digits after an optional sign
Unsigned(cs) == IF cs # <<>> /\ cs[1] \in {"+", "-"} THEN Tail(cs) ELSE cs

\* int(s) succeeds: optional blanks, an optional sign, one or more digits
ParsesAsInt(cs) ==
    LET ds == Unsigned(Strip(cs))
    IN ds # <<>> /\ \A i \in DOMAIN ds : IsDigit(ds[i])

RECURSIVE DigitsValue(_)
DigitsValue(ds) ==
    IF ds = <<>> THEN 0
    ELSE 10 * DigitsValue(SubSeq(ds, 1, Len(ds) - 1)) + DigitValue(ds[Len(ds)])

\* int(s) of a str that parses
ParseInt(cs) ==
    LET body == Strip(cs)
        v == DigitsValue(Unsigned(body))
    IN IF body[1] = "-" THEN -v ELSE v

\* int(hashlib.sha256(seed.encode('utf-8')).hexdigest(), 16) % (2**32), for the
\* seed strings of the runs
Sha256Mod32 == [cs \in {<<"4", " ", "2">>} |-> 671429441]

\* the 'Handle seed' block: the integer handed to np.random.seed
real_seed(seed) ==
    IF seed = PyNone THEN 42
    ELSE IF IsInt(seed) THEN seed.int
    ELSE IF ParsesAsInt(seed.str) THEN ParseInt(seed.str)
    ELSE Sha256Mod32[seed.str]

\* seed arguments: the default, its spellings, another integer, a string that is
\* no integer, and an integer numpy refuses
Seeds == {PyNone, PyInt(42), Str(<<"4", "2">>), PyInt(7), Str(<<"4", " ", "2">>),
          PyInt(-1)}

----------------------------------------------------------------------------
(* numpy's global generator *)

RngStates == 0..63

\* the generator's next state
RngStep(s) == (5 * s + 3) % 64

\* the sample produced on reaching state s
Sample(s) == ((s \div 4) % 7) - 3

\* a seed call that leaves the generator where it was
np_random_seed_ignored(state, v) ==
    IF v < 0 THEN [raised |-> Some("ValueError"), rng |-> state]
    ELSE [raised |-> None, rng |-> state]

\* np.random.seed(v): ValueError unless 0 <= v (the seeds of the runs are below
\* 2**32); otherwise the state depends on v alone
np_random_seed(state, v) ==
    IF v < 0 THEN [raised |-> Some("ValueError"), rng |-> state]
    ELSE [raised |-> None, rng |-> v % 64]

\* np.random.randn(...) of n entries: the samples in C order, and the state after
RECURSIVE np_random_randn(_, _)
np_random_randn(state, n) ==
    IF n = 0 THEN [values |-> <<>>, rng |-> state]
    ELSE LET rest == np_random_randn(RngStep(state), n - 1)
         IN [values |-> <<Sample(RngStep(state))>> \o rest.values, rng |-> rest.rng]

----------------------------------------------------------------------------
(* compute_perceptual_hash *)

\* np.concatenate of the four flattened arrays
FrameVec(f) == f.edges \o f.textures \o f.saliency \o f.color_hist

\* first_features[...].size summed
TotalDim(f) == Len(f.edges) + Len(f.textures) + Len(f.saliency) + Len(f.color_hist)

RECURSIVE SumSq(_)
SumSq(v) == IF v = <<>> THEN 0 ELSE v[1] * v[1] + SumSq(Tail(v))

\* np.linalg.norm, for the vectors of the runs, whose norm is an integer
Norm(v) == CHOOSE n \in 0..SumSq(v) : n * n = SumSq(v)

\* frame_vec / norm if norm > 1e-8, else zeros
Normalized(v) ==
    IF Norm(v) > 0 THEN [num |-> v, den |-> Norm(v)]
    ELSE [num |-> [i \in DOMAIN v |-> 0], den |-> 1]

\* entry (i, j) of the projection matrix of shape (total_dim, hash_size)
Entry(values, hash_size, i, j) == values[(i - 1) * hash_size + j]

RECURSIVE Dot(_, _, _, _)
Dot(v, values, hash_size, j) ==
    IF v = <<>> THEN 0
    ELSE Dot(SubSeq(v, 1, Len(v) - 1), values, hash_size, j)
             + v[Len(v)] * Entry(values, hash_size, Len(v), j)

\* frame_vec @ projection
Project(x, values, hash_size) ==
    [num |-> [j \in 1..hash_size |-> Dot(x.num, values, hash_size, j)], den |-> x.den]

\* projected_mean += (projected - projected_mean) / (i + 1), k = i + 1
MeanUpdate(m, p, k) ==
    [num |-> [j \in DOMAIN m.num |-> m.num[j] * (k - 1) * p.den + p.num[j] * m.den],
     den |-> m.den * p.den * k]

\* the loop over features.values(): the mean after the first k frames
RECURSIVE ProjectedMean(_, _, _, _)
ProjectedMean(features, values, hash_size, k) ==
    IF k = 0 THEN [num |-> [j \in 1..hash_size |-> 0], den |-> 1]
    ELSE MeanUpdate(ProjectedMean(features, values, hash_size, k - 1),
                    Project(Normalized(FrameVec(features[k])), values, hash_size),
                    k)

\* the entries in ascending order
RECURSIVE Ascending(_)
Ascending(s) ==
    IF s = <<>> THEN <<>>
    ELSE LET i == CHOOSE x \in DOMAIN s : \A y \in DOMAIN s : s[x] <= s[y]
         IN <<s[i]>> \o Ascending([j \in 1..(Len(s) - 1) |-> IF j < i THEN s[j] ELSE s[j + 1]])

\* s / 2 in floating point, for a sum s of two entries: the entries of a mean
\* vector are multiples of one unit (the spacing of the doubles around them),
\* their sum is exact, and the quotient is rounded to the unit, a tie to the
\* even multiple
HalfToEven(s) ==
    IF s % 2 = 0 THEN s \div 2
    ELSE IF ((s - 1) \div 2) % 2 = 0 THEN (s - 1) \div 2 ELSE (s + 1) \div 2

\* np.median of the numerators: the middle entry, or the mean of the two middle
\* entries
NpMedian(nums) ==
    LET a == Ascending(nums)
        n == Len(a)
    IN IF n % 2 = 1 THEN a[(n + 1) \div 2] ELSE HalfToEven(a[n \div 2] + a[(n \div 2) + 1])

\* a binarisation with >= in place of >
BinarizeInclusive(m) ==
    [j \in DOMAIN m.num |-> IF m.num[j] >= NpMedian(m.num) THEN 1 ELSE 0]

\* (projected_mean > median_val).astype(int)
Binarize(m) == [j \in DOMAIN m.num |-> IF m.num[j] > NpMedian(m.num) THEN 1 ELSE 0]

\* the statements after np.random.seed, run on the generator state 'state':
\* next(iter(features.values())) raises StopIteration on an empty mapping, the
\* matrix product raises ValueError on a frame of another size
HashFrom(state, features, hash_size) ==
    IF features = <<>>
    THEN [raised |-> Some("StopIteration"), ret |-> None, rng |-> state,
          projection |-> <<>>]
    ELSE LET total_dim == TotalDim(features[1])
             drawn == np_random_randn(state, total_dim * hash_size)
         IN IF \E k \in DOMAIN features : Len(FrameVec(features[k])) # total_dim
            THEN [raised |-> Some("ValueError"), ret |-> None, rng |-> drawn.rng,
                  projection |-> drawn.values]
            ELSE [raised |-> None,
                  ret |-> Some(Binarize(ProjectedMean(features, drawn.values, hash_size,
                                                      Len(features)))),
                  rng |-> drawn.rng, projection |-> drawn.values]

\* compute_perceptual_hash(features, hash_size, seed) as one call: what it raises
\* or returns, and the generator's state after it
compute_perceptual_hash(state, features, hash_size, seed) ==
    LET seeded == np_random_seed(state, real_seed(seed))
    IN IF seeded.raised # None
       THEN [raised |-> seeded.raised, ret |-> None, rng |-> seeded.rng]
       ELSE LET h == HashFrom(seeded.rng, features, hash_size)
            IN [raised |-> h.raised, ret |-> h.ret, rng |-> h.rng]

\* hamming_distance: hash1 != hash2 entry by entry
NotEqual(hash1, hash2) == [i \in DOMAIN hash1 |-> IF hash1[i] # hash2[i] THEN 1 ELSE 0]

\* np.sum
RECURSIVE NpSum(_)
NpSum(a) == IF a = <<>> THEN 0 ELSE a[1] + NpSum(Tail(a))

\* hamming_distance(hash1, hash2) of two arrays of one shape
hamming_distance(hash1, hash2) == NpSum(NotEqual(hash1, hash2))

----------------------------------------------------------------------------
(* The hashing module called from one thread (SpecHash) *)

\* a process that has imported numpy: the generator seeded from the system's
\* entropy, in one of the states 0..MaxEntropy
InitProcess == rng \in 0..MaxEntropy /\ feats = None /\ hout = NoHashOut /\ hcalls = 0

\* features = extract_perceptual_features(frames)
ExtractFeatures(frames) ==
    /\ feats' = Some(extract_perceptual_features(frames))
    /\ hout' = [NoHashOut EXCEPT !.op = "extract", !.frames = frames,
                   !.ret = Some(extract_perceptual_features(frames))]
    /\ hcalls' = hcalls + 1
    /\ UNCHANGED rng

\* compute_perceptual_hash(features, seed=seed) on the mapping the caller holds
ComputeHash(seed) ==
    /\ feats # None
    /\ LET r == compute_perceptual_hash(rng, Val(feats), HashBits, seed)
       IN /\ rng' = r.rng
          /\ hout' = [NoHashOut EXCEPT !.op = "hash", !.seed = Some(seed),
                         !.features = feats, !.raised = r.raised, !.ret = r.ret]
    /\ hcalls' = hcalls + 1
    /\ UNCHANGED feats

\* cli/extract.py main on a video whose decoder yields 'frames': extract, then
\* hash with the default seed; 'except Exception' reports what either raised and
\* exits with status 1
Main(frames) ==
    /\ LET features == extract_perceptual_features(frames)
           r == compute_perceptual_hash(rng, features, HashBits, PyInt(42))
       IN /\ rng' = r.rng
          /\ hout' = [NoHashOut EXCEPT !.op = "main", !.frames = frames,
                         !.seed = Some(PyInt(42)), !.features = Some(features),
                         !.raised = r.raised, !.ret = r.ret]
    /\ hcalls' = hcalls + 1
    /\ UNCHANGED feats

\* np.random.randint(...) elsewhere in the process: one more sample drawn
RandInt ==
    /\ rng' = RngStep(rng)
    /\ hcalls' = hcalls + 1
    /\ UNCHANGED <<feats, hout>>

HashFrame == UNCHANGED <<dbVars, seqVars, concVars, openVars, sigVars, anchorVars,
                         threadVars, restVars>>

NextHash ==
    \/ \E frames \in FrameLists :
           hcalls < MaxHashCalls /\ ExtractFeatures(frames) /\ HashFrame
    \/ \E seed \in Seeds :
           hcalls < MaxHashCalls /\ ComputeHash(seed) /\ HashFrame
    \/ \E frames \in FrameLists :
           hcalls < MaxHashCalls /\ Main(frames) /\ HashFrame
    \/ hcalls < MaxHashCalls /\ RandInt /\ HashFrame

InitHashing ==
    InitDb /\ InitSeq /\ InitConc /\ InitOpened /\ InitNoIdentity /\ InitNoAnchor
        /\ InitProcess /\ InitNoThreads /\ InitRest

SpecHash == InitHashing /\ [][NextHash]_vars

----------------------------------------------------------------------------
(* compute_perceptual_hash called from two threads of one process (SpecThreads) *)

\* the mappings and seeds the threads hash
ThreadFeatures ==
    {extract_perceptual_features(<<Frame(0, 3, 4, 0)>>),
     extract_perceptual_features(<<Frame(0, 3, 4, 0), Frame(0, 4, -3, 0)>>)}

ThreadSeeds == {PyInt(42), PyInt(7)}

\* the call begins: the 'Handle seed' block works on locals alone
Enter(t, features, seed) ==
    /\ tpc[t] = "idle"
    /\ tloc[t].n < MaxThreadCalls
    /\ tpc' = [tpc EXCEPT ![t] = "seed"]
    /\ tloc' = [tloc EXCEPT ![t] = [NoThreadLocals EXCEPT !.features = features,
                                       !.seed = Some(seed),
                                       !.real_seed = real_seed(seed),
                                       !.n = tloc[t].n]]
    /\ UNCHANGED rng

\* np.random.seed(real_seed)
SeedStep(t) ==
    /\ tpc[t] = "seed"
    /\ LET s == np_random_seed(rng, tloc[t].real_seed)
       IN /\ rng' = s.rng
          /\ tpc' = [tpc EXCEPT ![t] = IF s.raised = None THEN "randn" ELSE "idle"]
          /\ tloc' = [tloc EXCEPT ![t].raised = s.raised,
                                  ![t].n = IF s.raised = None THEN @ ELSE @ + 1]

\* projection = np.random.randn(total_dim, hash_size) and the statements after
\* it, which work on locals alone, up to the return
RandnStep(t) ==
    /\ tpc[t] = "randn"
    /\ LET h == HashFrom(rng, tloc[t].features, HashBits)
       IN /\ rng' = h.rng
          /\ tloc' = [tloc EXCEPT ![t].projection = h.projection,
                                  ![t].raised = h.raised, ![t].ret = h.ret,
                                  ![t].n = @ + 1]
    /\ tpc' = [tpc EXCEPT ![t] = "idle"]

ThreadFrame == UNCHANGED <<dbVars, seqVars, concVars, openVars, sigVars, anchorVars,
                           feats, hout, hcalls, restVars>>

NextThreads ==
    \/ \E t \in Threads, features \in ThreadFeatures, seed \in ThreadSeeds :
           Enter(t, features, seed) /\ ThreadFrame
    \/ \E t \in Threads : SeedStep(t) /\ ThreadFrame
    \/ \E t \in Threads : RandnStep(t) /\ ThreadFrame

InitThreads ==
    InitDb /\ InitSeq /\ InitConc /\ InitOpened /\ InitNoIdentity /\ InitNoAnchor
        /\ InitProcess /\ InitNoThreads /\ InitRest

SpecThreads == InitThreads /\ [][NextThreads]_vars

----------------------------------------------------------------------------
(* get_stats, and the store under stores, deletes and statistics (SpecStore) *)

\* calls of store_hash and delete_hash in one run
MaxStoreOps == 3

\* the order of GROUP BY platform: NULL first, then the texts in ascending order
PlatformOrder == <<None, Some(""), Some("a"), Some("b")>>

\* SELECT platform, COUNT(*) FROM hashes GROUP BY platform: one <<platform, count>>
\* row per platform that occurs
GroupByPlatform(tbl) ==
    LET Count(p) == Cardinality({r \in tbl : r["platform"] = p})
        all == [i \in DOMAIN PlatformOrder |-> <<PlatformOrder[i], Count(PlatformOrder[i])>>]
        Occurs(g) == g[2] > 0
    IN SelectSeq(all, Occurs)

\* {row[0] or 'unknown': row[1] for row in cursor.fetchall()}: a later row with
\* the same key replaces the count of an earlier one
RECURSIVE ByPlatform(_)
ByPlatform(groups) ==
    IF groups = <<>> THEN Dict(<<>>)
    ELSE LET g == groups[Len(groups)]
             key == IF TruthyStr(g[1]) THEN Val(g[1]) ELSE "unknown"
         IN SetItem(ByPlatform(SubSeq(groups, 1, Len(groups) - 1)), key, g[2])

\* SELECT MIN(created_at), MAX(created_at) FROM hashes: NULLs on an empty table
MinCreatedAt(tbl) ==
    IF tbl = {} THEN None
    ELSE Some(CHOOSE t \in {r["created_at"] : r \in tbl} :
                  \A r \in tbl : t <= r["created_at"])

MaxCreatedAt(tbl) ==
    IF tbl = {} THEN None
    ELSE Some(CHOOSE t \in {r["created_at"] : r \in tbl} :
                  \A r \in tbl : t >= r["created_at"])

\* get_stats on an open connection
get_stats(tbl) ==
    [total_hashes |-> Cardinality(tbl),
     by_platform |-> ByPlatform(GroupByPlatform(tbl)),
     oldest_entry |-> MinCreatedAt(tbl),
     newest_entry |-> MaxCreatedAt(tbl)]

\* db.get_stats()
GetStats ==
    /\ last.op # "stats"   \* get_stats changes nothing: a second one reaches nothing new
    /\ last' = [NoCall EXCEPT !.op = "stats", !.pre = rows, !.stats = Some(get_stats(rows))]
    /\ UNCHANGED <<rows, seq, now, ops>>

NextStore ==
    \/ \E fp \in Fingerprints, args \in QueryStoreArgs, t \in Times :
           ops < MaxStoreOps /\ StoreHash(fp, args, t) /\ DbFrame
    \/ \E id \in 1..(seq + 1) :
           ops < MaxStoreOps /\ DeleteHash(id) /\ DbFrame
    \/ GetStats /\ DbFrame

SpecStore == Init /\ [][NextStore]_vars

----------------------------------------------------------------------------
(* store_hash and delete_hash with a record of the ids handed out (SpecIds) *)

\* store_hash(fp, **args), and the id it returns for a newly inserted record
\* is noted
StoreNoting(fp, args, t) ==
    /\ StoreHash(fp, args, t)
    /\ issued' = IF RowsWithHash(rows, HashStr(fp)) = {} /\ last'.ret # None
                 THEN issued \cup {Val(last'.ret)}
                 ELSE issued

IdsFrame ==
    UNCHANGED <<concVars, openVars, sigVars, anchorVars, hashVars, threadVars,
                procVars, callerVars>>

NextIds ==
    \/ \E fp \in StoreFps, args \in ConcArgs, t \in Times :
           ops < MaxStoreOps /\ StoreNoting(fp, args, t) /\ IdsFrame
    \/ \E id \in 1..(seq + 1) :
           ops < MaxStoreOps /\ DeleteHash(id) /\ UNCHANGED issued /\ IdsFrame

SpecIds == Init /\ [][NextIds]_vars

----------------------------------------------------------------------------
(* Claims about store_hash on one connection (Spec) *)

StoredRow(tbl, fp) == CHOOSE r \in RowsWithHash(tbl, HashStr(fp)) : TRUE

\* what a column holds once it has taken the Python value v
AsStored(f, v) == IF f = "metadata" THEN Some(JsonDumps(Val(v))) ELSE v

\* C3: when store_hash is called with a fingerprint that already has a record, each
\* optional column afterwards holds the new value if that is non-null (an empty
\* metadata map and frame_count 0 included) and the old value if it is null.
C3_MergeEveryNonNull ==
    (last.op = "store" /\ RowsWithHash(last.pre, HashStr(last.fp)) # {}) =>
        \A f \in OptFields :
            StoredRow(rows, last.fp)[f] =
                IF last.args[f] # None THEN AsStored(f, last.args[f])
                ELSE StoredRow(last.pre, last.fp)[f]

\* C4: a store_hash call that repeats the previous call's fingerprint and arguments
\* leaves the table as the previous call left it (one row for the fingerprint, every
\* column, id and created_at included, unchanged) and returns the same id.
C4_StoreIdempotent ==
    (last.op = "store" /\ last.rep) =>
        /\ rows = last.pre
        /\ Cardinality(RowsWithHash(rows, HashStr(last.fp))) = 1
        /\ last.ret = last.prevRet
        /\ last.ret = Some(StoredRow(rows, last.fp)["id"])

\* a repeated call with every argument set, made after the clock has advanced
C4_Witness ==
    /\ last.op = "store" /\ last.rep
    /\ last.args = Full
    /\ StoredRow(rows, last.fp)["created_at"] < now

----------------------------------------------------------------------------
(* Claims about query_similar (SpecQuery) *)

Abs(n) == IF n < 0 THEN -n ELSE n

InResult(res, id) == \E i \in 1..Len(res) : res[i]["id"] = id

\* C5: for a stored fingerprint and a query fingerprint that differ in exactly k bits
\* (here the sample with its first i and first j bits flipped, k = |i - j|), with no
\* platform filter: threshold k returns the record with hamming_distance k unless the
\* limit is reached, and threshold k - 1 does not return it.
C5_QueryAtDistance ==
    (last.op = "query" /\ last.platform = None) =>
        \A i \in 0..MaxFlips, j \in 0..MaxFlips :
            \A r \in RowsWithHash(rows, HashStr(Flip(BaseHash, j))) :
                (last.fp = Flip(BaseHash, i)) =>
                    /\ (last.threshold = Abs(i - j) /\ Len(last.res) < last.limit) =>
                          \E e \in 1..Len(last.res) :
                              /\ last.res[e]["id"] = r["id"]
                              /\ last.res[e]["hamming_distance"] = Abs(i - j)
                    /\ (last.threshold = Abs(i - j) - 1) => ~InResult(last.res, r["id"])

\* a query two bits away from one stored record and one bit away from another,
\* threshold 2: both come back
C5_Witness ==
    /\ last.op = "query" /\ last.platform = None
    /\ last.threshold = 2 /\ Len(last.res) = 2 /\ last.limit > 2
    /\ last.res[1]["hamming_distance"] = 1
    /\ last.res[2]["hamming_distance"] = 2

\* the number of bits in which the query differs from a stored row
BitsApart(fp, r) == Cardinality({i \in 1..HashBits : DigitChar(fp[i]) # r["hash"][i]})

\* the properties of a query result, for a given reading of which rows the platform
\* argument selects
QueryContract(Selected(_)) ==
    LET res == last.res
        Matching == {r \in rows : Selected(r) /\ BitsApart(last.fp, r) <= last.threshold}
    IN /\ \A i \in 1..Len(res) :
            /\ res[i]["hamming_distance"] <= last.threshold
            /\ \E r \in rows : r["id"] = res[i]["id"] /\ Selected(r)
                                 /\ res[i]["hamming_distance"] = BitsApart(last.fp, r)
       /\ \A i \in 1..Len(res), k \in 1..Len(res) :
            i <= k => res[i]["hamming_distance"] <= res[k]["hamming_distance"]
       /\ last.limit >= 0 =>
            /\ Len(res) <= last.limit
            /\ \A r \in Matching :
                 ~InResult(res, r["id"]) =>
                    /\ Len(res) = last.limit
                    /\ \A i \in 1..Len(res) :
                          res[i]["hamming_distance"] <= BitsApart(last.fp, r)

----------------------------------------------------------------------------
(* Claims about the store under concurrent connections (SpecConc) *)

\* C1: no two persisted records hold the same fingerprint: after any store_hash and
\* delete_hash calls there is at most one row for each value of hash.
C1_UniqueHash ==
    \A r1 \in rows, r2 \in rows : r1["hash"] = r2["hash"] => r1 = r2

\* a fingerprint stored twice and another stored beside it, after a deletion
C1_Witness ==
    /\ Cardinality(rows) = 2
    /\ \E c \in Conns : pc[c] = "idle" /\ loc[c].path = "update"

Finished(c) == pc[c] = "idle" /\ loc[c].op = "store" /\ loc[c].clean

\* C2: when two connections have each completed a store_hash call for the same
\* fingerprint, with no row deleted since either call began, exactly one row holds
\* that fingerprint and both calls returned its id, however their statements
\* interleaved.
C2_ConcurrentStore ==
    \A c \in Conns, d \in Conns :
        (c # d /\ Finished(c) /\ Finished(d) /\ loc[c].fp = loc[d].fp) =>
            /\ Cardinality(RowsWithHash(rows, HashStr(loc[c].fp))) = 1
            /\ loc[c].ret = Some(StoredRow(rows, loc[c].fp)["id"])
            /\ loc[d].ret = loc[c].ret

\* two overlapping calls for one fingerprint: one inserted, the other found the row
C2_Witness ==
    /\ Finished("A") /\ Finished("B") /\ loc["A"].fp = loc["B"].fp
    /\ loc["A"].ovl /\ loc["B"].ovl
    /\ loc["A"].path = "insert" /\ loc["B"].path = "update"
    /\ loc["B"].args # AllNone

\* the store_hash call of connection c returns in this step
Returns(c) == loc[c].op = "store" /\ pc[c] # "idle" /\ pc'[c] = "idle"

\* C25: whenever a store_hash call returns, it returns an id, and the committed
\* table holds a record with that id, the submitted fingerprint and every
\* submitted non-null field, whatever another connection's store_hash and
\* delete_hash calls did meanwhile.
C25_WriteNeverLost ==
    [][\A c \in Conns :
          Returns(c) =>
              /\ loc'[c].ret # None
              /\ \E r \in rows' :
                     /\ r["id"] = Val(loc'[c].ret)
                     /\ r["hash"] = HashStr(loc[c].fp)
                     /\ \A f \in OptFields :
                            loc[c].args[f] # None => r[f] = AsStored(f, loc[c].args[f])]_vars

----------------------------------------------------------------------------
(* Claims about opening a database (SpecOpen) *)

\* a row as an earlier version wrote it is still there, its columns unchanged
Preserved(old) == \E r \in rows : \A c \in DOMAIN old : c \in DOMAIN r /\ r[c] = old[c]

\* C7: opening a database whose hashes table was written by an earlier schema
\* succeeds, leaves the table with all five signature columns and keeps every
\* pre-existing row, on the first open and on every later one, also after a
\* migration that added only some of the columns.
C7_OpenMigratesLegacy ==
    (legacy.schema # {} /\ opc \in {"open", "failed"}) =>
        /\ opc = "open"
        /\ SignatureColumns \subseteq schema
        /\ \A old \in legacy.rows : Preserved(old)
        /\ Cardinality(rows) = Cardinality(legacy.rows)

----------------------------------------------------------------------------
(* Claims about signing and verifying (SpecSig) *)

Fields == ({"claim"} \X ClaimKeys) \cup ({"proof"} \X ProofKeys)

\* the fields whose value is no longer the one sign_hash gave them
Absent == [absent |-> TRUE]

\* the value of a field of a document, Absent when the document has none
Field(d, f) ==
    IF d = None \/ f[1] \notin DOMAIN Val(d) THEN Absent
    ELSE IF ~HasKey(Val(d)[f[1]], f[2]) THEN Absent
    ELSE Get(Val(d)[f[1]], f[2])

ChangedFields == {f \in Fields : ~PyEq(Field(doc, f), Field(orig, f))}

Verified == out.op = "verify_signature"

\* verify_signature returned (False, reason) with a reason that is not None
Invalid == out.ret[1] = FALSE /\ out.ret[2] # None

\* C8: verify_signature applied to the document sign_hash returned, for every
\* fingerprint of 64 characters and every metadata map, none included, returns
\* (True, None).
C8_SignVerifyRoundTrip ==
    (Verified /\ doc = orig) => out.ret = <<TRUE, None>>

C8_Witness ==
    /\ Verified /\ doc = orig
    /\ Get(Val(doc).claim, "hash_hex") \in ValidHex
    /\ HasKey(Get(Val(doc).claim, "metadata"), "video")
    /\ out.ret = <<TRUE, None>>

\* C9: when claim.hash_hex of a signed document is replaced by a different value
\* and nothing else is changed, verify_signature returns (False, reason) with a
\* reason that is not None.
C9_TamperedHashInvalid ==
    (Verified /\ ChangedFields = {<<"claim", "hash_hex">>}) => Invalid

C9_Witness ==
    /\ Verified /\ ChangedFields = {<<"claim", "hash_hex">>}
    /\ Get(Val(doc).claim, "hash_hex") \in ValidHex
    /\ Get(Val(orig).claim, "hash_hex") \in ValidHex
    /\ Invalid

\* C10: when the value of any single field of the claim or of the proof of a
\* signed document is changed, verify_signature returns (False, reason) with a
\* reason that is not None.
C10_AnyFieldChangeInvalid ==
    (/\ Verified
     /\ Cardinality(ChangedFields) = 1
     /\ \A f \in Fields : Field(doc, f) # Absent) => Invalid

\* the document lacks the claim, the proof or a proof field, or its signature or
\* public key is no Base64 text
Malformed(d) ==
    \/ "claim" \notin DOMAIN d
    \/ ~IsDict(d.claim)
    \/ ~IsDict(d.proof)
    \/ \E k \in ProofKeys : ~HasKey(d.proof, k)
    \/ "b64" \notin DOMAIN Get(d.proof, "signature")
    \/ "b64" \notin DOMAIN Get(d.proof, "public_key")

\* C11: verify_signature never raises, it returns a (bool, reason) pair, and for
\* a document that lacks the claim, the proof or any proof field, or carries a
\* malformed signature or public key encoding, the pair is (False, reason) with
\* a reason that is not None.
C11_VerifyRejectsMalformed ==
    Verified =>
        /\ out.raised = None
        /\ out.ret[1] \in BOOLEAN
        /\ Malformed(Val(doc)) => Invalid

----------------------------------------------------------------------------
(* Claims about key order and serialisation (SpecOrder) *)

\* the document with claim and proof changed by f
Rebuilt(d, f(_)) == [d EXCEPT !.claim = f(@), !.proof = f(@)]

\* claim and proof of the held document hold what sign_hash put there, whatever
\* the order of their keys and whether or not they went through JSON
AsSigned ==
    /\ PyEq(JsonReload(Val(doc).claim), JsonReload(Val(orig).claim))
    /\ PyEq(JsonReload(Val(doc).proof), JsonReload(Val(orig).proof))

----------------------------------------------------------------------------
(* Claims about processes sharing a key location (SpecKeys) *)

\* no process is inside a call
Quiet == \A p \in Procs : kpc[p] \in {"start", "ready"}

\* C24: a private key file that exists is never written again, and once every
\* call has returned, each process that went through ensure_identity holds in
\* memory the key that is on disk
C24_PersistedKeyNeverReplaced ==
    [][/\ keyfiles.private # None => keyfiles'.private = keyfiles.private
       /\ Quiet' =>
              \A p \in Procs :
                  kloc'[p].call = "ensure_identity" =>
                      /\ kloc'[p].private_key = keyfiles'.private
                      /\ keyfiles'.public = keyfiles'.private]_vars

----------------------------------------------------------------------------
(* Claims about anchors (SpecAnchor) *)

\* the urls of the anchors in a file, in order
AnchorUrls(file) ==
    IF file = Corrupt \/ "anchors" \notin DOMAIN file THEN <<>>
    ELSE [i \in DOMAIN file.anchors |-> Get(file.anchors[i], "url")]

NoDuplicateUrl(file) ==
    \A i, j \in DOMAIN AnchorUrls(file) :
        AnchorUrls(file)[i] = AnchorUrls(file)[j] => i = j

\* the last call named a url the file already held
DuplicateCall ==
    /\ aout.op = "add_anchor"
    /\ \E i \in DOMAIN AnchorUrls(Val(aout.pre)) :
           AnchorUrls(Val(aout.pre))[i] = Str(aout.url)

\* C12: after any sequence of add_anchor calls on a file that began without
\* duplicate urls, no two anchors of the file share a url; a call with a url the
\* file already holds leaves the file as it was, raises nothing and returns the
\* document of the file.
C12_AnchorDedup ==
    /\ NoDuplicateUrl(Val(sigfile))
    /\ DuplicateCall =>
          /\ sigfile = aout.pre
          /\ aout.raised = None
          /\ aout.ret = sigfile

C12_Witness ==
    /\ DuplicateCall
    /\ Len(AnchorUrls(Val(sigfile))) = 2
    /\ acalls = 3

\* the anchors of a document, none when it has no anchors key
AnchorsOf(d) == IF "anchors" \in DOMAIN d THEN d.anchors ELSE <<>>

\* document d with at most one anchor appended and nothing else changed
OnlyAppended(old, d) ==
    /\ \A f \in {"claim", "proof", "version"} :
           /\ (f \in DOMAIN d) = (f \in DOMAIN old)
           /\ f \in DOMAIN old => d[f] = old[f]
    /\ Len(AnchorsOf(d)) \in {Len(AnchorsOf(old)), Len(AnchorsOf(old)) + 1}
    /\ \A i \in DOMAIN AnchorsOf(old) : AnchorsOf(d)[i] = AnchorsOf(old)[i]
    /\ verify_signature(d) = verify_signature(old)

\* the file holds an anchor with this url
Holds(url) ==
    /\ sigfile # Some(Corrupt)
    /\ \E i \in DOMAIN AnchorUrls(Val(sigfile)) : AnchorUrls(Val(sigfile))[i] = Str(url)

\* C27: while the file is a document it holds the url of every add_anchor call
\* that has returned a document, and once no call is running it is a document
\* that holds the url of every call made, however the callers' steps interleaved
C27_AnchorsOnlyGrow ==
    /\ sigfile # Some(Corrupt) =>
           \A c \in Callers :
               (apc[c] = "idle" /\ aloc[c].ret # None) => Holds(aloc[c].url)
    /\ (\A c \in Callers : apc[c] = "idle") =>
           \A c \in Callers : aloc[c].n > 0 => Holds(aloc[c].url)

\* C26: an add_anchor call leaves the file a document that differs from the one
\* it found only by at most one anchor appended at the end: claim, proof, version
\* and the existing anchors in their order are as before, and verify_signature
\* gives the same result on it.
C26_AnchorOnlyAppends ==
    (aout.op = "add_anchor" /\ aout.pre # Some(Corrupt)) =>
        /\ sigfile # Some(Corrupt)
        /\ OnlyAppended(Val(aout.pre), Val(sigfile))

----------------------------------------------------------------------------
(* Claims about the identity (SpecSig) *)

\* C13: generate(overwrite=False) on an identity whose private key file exists
\* raises FileExistsError and leaves the key files and the loaded keypair as
\* they were; an existing keypair is replaced by generate(overwrite=True) only.
C13_GenerateKeepsExisting ==
    [][/\ (out'.op = "generate" /\ keyfiles.private # None) =>
             /\ out'.raised = Some("FileExistsError")
             /\ keyfiles' = keyfiles
             /\ ident' = ident
       /\ (keyfiles.private # None /\ (keyfiles' # keyfiles \/ ident' # ident)) =>
             out'.op = "generate_overwrite"]_vars

C13_Witness ==
    /\ out.op = "generate"
    /\ out.raised = Some("FileExistsError")
    /\ keyfiles.private # None
    /\ ident.private_key = keyfiles.private

KeyCreators == {"generate", "generate_overwrite", "ensure_identity"}

\* C14: sign_hash on an identity without a loaded keypair raises, returns no
\* document and creates no key files; key files and the loaded keypair change
\* in generate and ensure_identity only.
C14_SignNeedsIdentity ==
    [][/\ (out'.op = "sign_hash" /\ ident.private_key = None) =>
             /\ out'.raised = Some("ValueError")
             /\ doc' = doc
             /\ keyfiles' = keyfiles
             /\ ident' = ident
       /\ (keyfiles' # keyfiles \/ ident' # ident) => out'.op \in KeyCreators]_vars

C14_Witness ==
    /\ out.op = "sign_hash"
    /\ out.raised = Some("ValueError")
    /\ ident.private_key = None
    /\ keyfiles.private = None
    /\ doc = None

\* the hash_hex arguments character by character
HashHexTexts ==
    {HashHex(HashStr(fp)) : fp \in StoreFps}
        \cup {<<"a", "b", "c">>, [i \in 1..HashHexLen |-> "z"]}

\* a str of 64 characters, all of them hex digits
IsHexText(v) ==
    /\ IsStr(v)
    /\ \E cs \in HashHexTexts :
          /\ Concat(cs) = v.str
          /\ Len(cs) = HashHexLen
          /\ \A i \in DOMAIN cs : \E j \in DOMAIN HexChars : cs[i] = HexChars[j]

\* C15: sign_hash raises, and signs nothing, for every hash_hex that is not a
\* str of 64 hex digits: a wrong length, a value that is no str, 64 characters
\* with one that is no hex digit.
C15_SignRejectsMalformedHex ==
    (out.op = "sign_hash" /\ out.raised = None) =>
        IsHexText(Get(Val(doc).claim, "hash_hex"))

----------------------------------------------------------------------------
(* Claims about feature extraction and the perceptual hash (SpecHash) *)

\* C16: on an empty frame sequence extract_perceptual_features raises instead of
\* returning, it never returns an empty feature mapping, and the pipeline of
\* cli/extract.py does not hand a mapping of zero frames to
\* compute_perceptual_hash
C16_EmptyFramesRejected ==
    /\ (hout.op = "extract" /\ hout.frames = <<>>) => hout.raised # None
    /\ hout.op = "extract" => hout.ret # Some(<<>>)
    /\ (hout.op = "main" /\ hout.frames = <<>>) => hout.features = None

\* the outcome of compute_perceptual_hash(features, seed=seed) as the first call
\* of a process whose generator is in state st
Alone(st, features, seed) == compute_perceptual_hash(st, features, HashBits, seed)

\* the spellings of the default seed
DefaultSeeds == {PyNone, PyInt(42), Str(<<"4", "2">>)}

\* C18: a call of compute_perceptual_hash returns (or raises) what the same call
\* returns as the first call of a fresh process, whatever calls and draws from
\* np.random came before it; with seed None, 42 or "42" it returns the
\* fingerprint of seed 42
C18_HashDeterministic ==
    hout.op \in {"hash", "main"} =>
        /\ \A st \in 0..MaxEntropy :
               /\ Alone(st, Val(hout.features), Val(hout.seed)).ret = hout.ret
               /\ Alone(st, Val(hout.features), Val(hout.seed)).raised = hout.raised
        /\ Val(hout.seed) \in DefaultSeeds =>
               hout.ret = Alone(0, Val(hout.features), PyInt(42)).ret

\* a fingerprint returned for seed "42" after two other calls in the process
C18_Witness ==
    /\ hcalls = MaxHashCalls
    /\ hout.op = "hash" /\ hout.raised = None /\ hout.ret # None
    /\ hout.seed = Some(Str(<<"4", "2">>))
    /\ hout.ret # Alone(0, Val(hout.features), PyInt(7)).ret

----------------------------------------------------------------------------
(* Claims about hamming_distance (SpecDistance) *)

\* the positions where two fingerprints differ
Differing(a, b) == {i \in 1..HashBits : a[i] # b[i]}

\* hamming_distance counts the differing positions, lies in 0..HashBits, and is 0
\* on equal arguments
HammingLaws ==
    \A a \in AllFingerprints :
        /\ hamming_distance(a, a) = 0
        /\ \A b \in AllFingerprints :
               /\ hamming_distance(a, b) = Cardinality(Differing(a, b))
               /\ hamming_distance(a, b) \in 0..HashBits

\* the fingerprint that was stored as the text hs
StoredArray(hs) == [i \in 1..Len(hs) |-> IF hs[i] = "1" THEN 1 ELSE 0]

\* C20: for all fingerprints a and b of HashBits bits hamming_distance(a, b) is
\* the number of differing positions, within 0..HashBits, 0 when a = b, and
\* every hamming_distance query_similar reports for a stored b queried with a is
\* hamming_distance(a, b)
C20_HammingDistance ==
    /\ HammingLaws
    /\ last.op = "query" =>
           \A i \in 1..Len(last.res) :
               last.res[i]["hamming_distance"]
                   = hamming_distance(last.fp, StoredArray(last.res[i]["hash"]))

\* a query that reported two fingerprints, one of them at distance 2
C20_Witness ==
    /\ last.op = "query" /\ Len(last.res) = 2
    /\ \E i \in 1..Len(last.res) :
           /\ last.res[i]["hamming_distance"] = 2
           /\ hamming_distance(last.fp, StoredArray(last.res[i]["hash"])) = 2

----------------------------------------------------------------------------
(* Claims about compute_perceptual_hash in two threads (SpecThreads) *)

\* C19: under every interleaving of two threads, a finished call of
\* compute_perceptual_hash has returned the fingerprint the same call returns
\* when it runs alone
C19_ParallelHashSafe ==
    \A t \in Threads :
        (tpc[t] = "idle" /\ tloc[t].n > 0) =>
            /\ tloc[t].ret = Alone(0, tloc[t].features, Val(tloc[t].seed)).ret
            /\ tloc[t].raised = Alone(0, tloc[t].features, Val(tloc[t].seed)).raised

----------------------------------------------------------------------------
(* Claims about the arrays handed to the store (SpecArrays) *)

\* an array of HashBits entries, each 0 or 1
WellFormed(fp) == Len(fp) = HashBits /\ \A i \in 1..Len(fp) : fp[i] \in {0, 1}

\* C17: store_hash and query_similar raise on an array that is not HashBits
\* entries of 0 and 1, store_hash leaving the table as it was, and query_similar
\* reports no distance to a stored fingerprint of another length than the array
\* it was called with
C17_MalformedArrayRejected ==
    /\ (last.op \in {"store", "query"} /\ ~WellFormed(last.fp)) =>
           (last.raised # None /\ rows = last.pre /\ last.res = <<>>)
    /\ last.op = "query" =>
           \A i \in 1..Len(last.res) : Len(last.res[i]["hash"]) = Len(last.fp)

----------------------------------------------------------------------------
(* Claims about deletes, statistics and ids (SpecStore) *)

\* C21: delete_hash(id) returns True exactly when a row with that id existed; it
\* removes that row and no other and changes no other row; when it returns False
\* the table is as it was
C21_DeleteById ==
    last.op = "delete" =>
        /\ last.ret = Some(\E r \in last.pre : r["id"] = last.id)
        /\ \A r \in rows : r["id"] # last.id
        /\ rows = {r \in last.pre : r["id"] # last.id}
        /\ last.ret = Some(FALSE) => rows = last.pre

\* a delete that returned True and left another row in the table
C21_Witness ==
    /\ last.op = "delete" /\ last.ret = Some(TRUE)
    /\ rows # {} /\ rows # last.pre

\* the counts of by_platform added up
RECURSIVE SumCounts(_)
SumCounts(items) == IF items = <<>> THEN 0 ELSE items[1][2] + SumCounts(Tail(items))

\* C22: get_stats returns total_hashes = the number of rows, a by_platform whose
\* counts add up to total_hashes with the rows of no platform under 'unknown',
\* oldest_entry and newest_entry the least and greatest created_at, both None
\* exactly when the table is empty
C22_StatsMatchStore ==
    last.op = "stats" =>
        LET st == Val(last.stats)
        IN /\ st.total_hashes = Cardinality(rows)
           /\ SumCounts(st.by_platform.dict) = st.total_hashes
           /\ (\E r \in rows : r["platform"] = None) =>
                  /\ HasKey(st.by_platform, "unknown")
                  /\ Get(st.by_platform, "unknown")
                         >= Cardinality({r \in rows : r["platform"] = None})
           /\ st.oldest_entry = MinCreatedAt(rows)
           /\ st.newest_entry = MaxCreatedAt(rows)
           /\ (st.oldest_entry = None) = (rows = {})
           /\ (st.newest_entry = None) = (rows = {})

\* the step is a store_hash call that inserts a record
Inserts ==
    /\ ops' = ops + 1 /\ last'.op = "store" /\ last'.ret # None
    /\ RowsWithHash(rows, HashStr(last'.fp)) = {}

\* C28: the id store_hash returns for a newly inserted record is greater than
\* every id it has returned for an inserted record before, whatever was deleted
\* in between
C28_IdsNeverReused ==
    [][Inserts => \A i \in issued : Val(last'.ret) > i]_vars

\* the only record, the one with the highest id, was deleted and a record was
\* stored again: it got id 2
C28_Witness ==
    /\ ops = 3 /\ last.op = "store" /\ last.pre = {}
    /\ issued = {1, 2}
    /\ \A r \in rows : r["id"] = 2
    /\ rows # {}

----------------------------------------------------------------------------
(* Claims about the binarisation (SpecHash) *)

\* the numerators of the mean vector of the last call
MeanOf(features, seed) ==
    LET total_dim == TotalDim(features[1])
        st == np_random_seed(0, real_seed(seed)).rng
    IN ProjectedMean(features, np_random_randn(st, total_dim * HashBits).values,
                     HashBits, Len(features)).num

Hashed == hout.op \in {"hash", "main"} /\ hout.raised = None

Ones(h) == Cardinality({i \in DOMAIN h : h[i] = 1})

Distinct(v) == \A i, j \in DOMAIN v : v[i] = v[j] => i = j

\* the two middle entries of a vector of even length
LowerMiddle(v) == Ascending(v)[Len(v) \div 2]
UpperMiddle(v) == Ascending(v)[(Len(v) \div 2) + 1]

\* the exact mean of the two middle entries lies strictly between them
ExactlyAbove(v, x) == 2 * x > LowerMiddle(v) + UpperMiddle(v)

----------------------------------------------------------------------------
(* Claims about the seed (SpecHash) *)

\* C30: whatever seed compute_perceptual_hash is called with on a mapping of one
\* or more frames, the integer handed to np.random.seed is one of 0..2^32-1 (42
\* for None, the value of an integer or of a string that parses as one), and the
\* call raises nothing
C30_SeedAlwaysValid ==
    (hout.op = "hash" /\ hout.features # Some(<<>>)) =>
        LET seed == Val(hout.seed)
        IN /\ real_seed(seed) >= 0
           /\ real_seed(seed) \div 65536 < 65536
           /\ seed = PyNone => real_seed(seed) = 42
           /\ IsInt(seed) => real_seed(seed) = seed.int
           /\ hout.raised = None

====
